---- MODULE Spec2Model ----
(***************************************************************************)
(* Market analysis pipeline of the real-estate repository:                 *)
(*   src/src/market/models.py        derived fields of the data model      *)
(*   src/src/market/analyzer.py      parse_address_parts, build_comparables,*)
(*                                   estimate_value, the three analyses,   *)
(*                                   generate_report                       *)
(*   src/src/market/ai_summary.py    _build_prompt, generate_ai_summary    *)
(*   src/src/market/orchestrator.py  run_market_analysis                   *)
(*                                                                         *)
(* Conventions.  An Optional value is a sequence of length 0 (None) or 1.  *)
(* Money and square metres are integers.  Room counts are kept in half-    *)
(* rooms (the source's half-room granularity), dates as day ordinals.      *)
(* Floats are exact rationals: a weight is kept as its numerator over      *)
(* WeightScale, an average as a numerator/denominator pair, and round()    *)
(* is Python's round-half-to-even.  Progress fractions are in hundredths.  *)
(***************************************************************************)
EXTENDS Integers, Sequences, FiniteSets, TLC

VARIABLES
    \* ---- one run of run_market_analysis (orchestrator.py) ----
    pc,                         \* stage of the run
    address,                    \* argument: the address, a sequence of characters
    include_ai,                 \* argument
    progress_callback,          \* argument: "None", "ok", or the result message it raises on
    api_key,                    \* environment: ANTHROPIC_API_KEY, "absent" or "present"
    city, neighborhood,         \* locals taken from parse_address_parts
    errors,                     \* local list of error strings
    transactions_street, transactions_neighborhood, transactions_city, listings,
    report,                     \* None, or the report built by generate_report
    returned,                   \* TRUE once the coroutine has returned its report
    raisedBy,                   \* "" or the callee whose exception left the coroutine
    ai_call,                    \* "", "none", or what the text-generation call did
    progress,                   \* the fractions handed to the callback, in order
    visited,                    \* the stages entered, in order
    stepResult,                 \* per data-source step: pending/skipped/ok/empty/raise
    discarded,                  \* records the source clients dropped during the run
    calls,                      \* the calls the coroutine awaited, in order
    \* ---- one call of estimate_value through build_comparables (analyzer.py) ----
    e_pc, e_transactions, e_listings, e_subject, e_result,
    \* ---- calls of parse_address_parts on one address (analyzer.py) ----
    p_address, p_results,
    \* ---- analyze_floor_prices, analyze_building_age, analyze_price_trends ----
    a_result,
    \* ---- one call of get_transactions_for_address (nadlan_client.py) ----
    n_pc,                       \* "idle", "resolving", "paging", "returned"
    n_key,                      \* environment: is SCRAPERAPI_KEY set
    n_max_pages,                \* argument
    n_transport,                \* index into urls_to_try of resolve_address
    n_attempt,                  \* `attempt` of the running _fetch_with_retry
    n_page,                     \* `page` of get_transactions
    n_transactions,             \* the list get_transactions accumulates
    n_log,                      \* HTTP requests and sleeps, in order
    n_pages,                    \* how each requested page ended, in order
    n_result,                   \* resolve_address / the call: None until it returns
    \* ---- one call of search_listings (yad2_client.py) ----
    y_pc, y_max_pages, y_neighborhood, y_page, y_listings, y_pages, y_result,
    \* ---- the merge of generate_report on three lists (analyzer.py) ----
    m_street, m_hood, m_town, m_result,
    \* ---- the session transaction store (transactions.py) ----
    s_store,                    \* st.session_state["transactions_store"]
    s_last,                     \* the last add call: its batch, the store before, its result
    \* ---- two runs of run_market_analysis on one event loop ----
    r_run                       \* the locals of each run

runVars == <<pc, address, include_ai, progress_callback, api_key, city, neighborhood,
             errors, transactions_street, transactions_neighborhood, transactions_city,
             listings, report, returned, raisedBy, ai_call, progress, visited, stepResult,
             discarded, calls>>
estVars == <<e_pc, e_transactions, e_listings, e_subject, e_result>>
parseVars == <<p_address, p_results>>
analysisVars == <<a_result>>
nadlanVars == <<n_pc, n_key, n_max_pages, n_transport, n_attempt, n_page, n_transactions,
                n_log, n_pages, n_result>>
yad2Vars == <<y_pc, y_max_pages, y_neighborhood, y_page, y_listings, y_pages, y_result>>
mergeVars == <<m_street, m_hood, m_town, m_result>>
storeVars == <<s_store, s_last>>
pairVars == <<r_run>>
vars == <<runVars, estVars, parseVars, analysisVars, nadlanVars, yad2Vars, mergeVars,
          storeVars, pairVars>>

\* the machines that a specification leaves untouched
ParseIdle == p_address = <<>> /\ p_results = <<>>
AnalysisIdle == a_result = <<>>
NadlanIdle ==
    /\ n_pc = "idle" /\ n_key = FALSE /\ n_max_pages = 0 /\ n_transport = 0
    /\ n_attempt = 0 /\ n_page = 0 /\ n_transactions = <<>> /\ n_log = <<>>
    /\ n_pages = <<>> /\ n_result = <<>>
Yad2Idle ==
    /\ y_pc = "idle" /\ y_max_pages = 0 /\ y_neighborhood = <<>> /\ y_page = 0
    /\ y_listings = <<>> /\ y_pages = <<>> /\ y_result = <<>>
MergeIdle == m_street = <<>> /\ m_hood = <<>> /\ m_town = <<>> /\ m_result = <<>>
StoreIdle == s_store = <<>> /\ s_last = <<>>
PairIdle == r_run = <<>>
OthersIdle == MergeIdle /\ StoreIdle /\ PairIdle

----------------------------------------------------------------------------
(* Optional values and small helpers *)

None == <<>>
Some(v) == <<v>>
IsNone(o) == o = <<>>
\* Python truthiness of an Optional number: not None and not 0
Truthy(o) == o # <<>> /\ o[1] # 0
Abs(x) == IF x < 0 THEN -x ELSE x

RECURSIVE SumSeq(_)
SumSeq(s) == IF s = <<>> THEN 0 ELSE Head(s) + SumSeq(Tail(s))

\* round(p/q) for q > 0: Python 3 rounds halves to the even neighbour
Round(p, q) ==
    LET f == p \div q
        r == p % q
    IN  IF 2 * r < q THEN f
        ELSE IF 2 * r > q THEN f + 1
        ELSE IF f % 2 = 0 THEN f ELSE f + 1

----------------------------------------------------------------------------
(* analyzer.py: parse_address_parts, on sequences of characters *)

Digits == {"0", "1", "2", "3", "4", "5", "6", "7", "8", "9"}
IsSpace(c) == c = " "
\* the street-word marker that re.sub strips when whitespace follows it
StreetWord == <<"R", "H", "O", "V">>

RECURSIVE LStrip(_)
LStrip(s) == IF s # <<>> /\ IsSpace(Head(s)) THEN LStrip(Tail(s)) ELSE s
RECURSIVE RStrip(_)
RStrip(s) ==
    IF s # <<>> /\ IsSpace(s[Len(s)]) THEN RStrip(SubSeq(s, 1, Len(s) - 1)) ELSE s
Strip(s) == RStrip(LStrip(s))

\* re.sub(r"^<StreetWord>\s+", "", s)
StripStreetWord(s) ==
    LET n == Len(StreetWord)
    IN  IF /\ Len(s) > n
           /\ SubSeq(s, 1, n) = StreetWord
           /\ IsSpace(s[n + 1])
        THEN LStrip(SubSeq(s, n + 1, Len(s)))
        ELSE s

\* str.split(","): always at least one segment
RECURSIVE SplitComma(_)
SplitComma(s) ==
    IF \A i \in 1..Len(s) : s[i] # ","
    THEN <<s>>
    ELSE LET k == CHOOSE i \in 1..Len(s) :
                      s[i] = "," /\ \A j \in 1..(i - 1) : s[j] # ","
         IN  <<SubSeq(s, 1, k - 1)>> \o SplitComma(SubSeq(s, k + 1, Len(s)))

\* the first digit alone
FirstDigitRun_OneDigit(s) ==
    IF \A i \in 1..Len(s) : s[i] \notin Digits
    THEN <<>>
    ELSE LET a == CHOOSE i \in 1..Len(s) :
                      s[i] \in Digits /\ \A j \in 1..(i - 1) : s[j] \notin Digits
         IN  <<a, a>>

\* re.search(r"(\d+)", s): <<start, end>> of the first run of digits, or <<>>
FirstDigitRun(s) ==
    IF \A i \in 1..Len(s) : s[i] \notin Digits
    THEN <<>>
    ELSE LET a == CHOOSE i \in 1..Len(s) :
                      s[i] \in Digits /\ \A j \in 1..(i - 1) : s[j] \notin Digits
             b == CHOOSE i \in a..Len(s) :
                      /\ \A j \in a..i : s[j] \in Digits
                      /\ (i = Len(s) \/ s[i + 1] \notin Digits)
         IN  <<a, b>>

parse_address_parts(addr) ==
    LET clean == StripStreetWord(Strip(addr))
        raw == SplitComma(clean)
        segments == [i \in 1..Len(raw) |-> Strip(raw[i])]
        street_part == segments[1]
        m == FirstDigitRun(street_part)
    IN  [ street |-> IF m = <<>> THEN street_part
                     ELSE Strip(SubSeq(street_part, 1, m[1] - 1)),
          number |-> IF m = <<>> THEN <<>> ELSE SubSeq(street_part, m[1], m[2]),
          city |-> IF Len(segments) >= 2 THEN segments[Len(segments)] ELSE <<>>,
          neighborhood |-> IF Len(segments) = 3 THEN segments[2] ELSE <<>> ]

----------------------------------------------------------------------------
(* models.py: records and their derived price_per_sqm                       *)
(* NadlanTransaction: [address, deal_amount, deal_date, rooms, floor,        *)
(*                     size_sqm, building_year]                              *)
(* Yad2Listing:       [address, price, date_listed, rooms, floor, size_sqm,  *)
(*                     building_year]                                        *)
(* ComparableProperty: [source, address, price, rooms, floor, size_sqm,      *)
(*                     building_year, deal_date, is_listed]                  *)

\* a price per sqm that falls back on the price when the size is unknown
PricePerSqm_Unsized(price, size_sqm) ==
    IF price <= 0 THEN None
    ELSE IF Truthy(size_sqm) /\ size_sqm[1] > 0 THEN Some(Round(price, size_sqm[1]))
    ELSE Some(price)

\* the shared body of the three price_per_sqm computed fields
PricePerSqm(price, size_sqm) ==
    IF Truthy(size_sqm) /\ size_sqm[1] > 0 /\ price > 0
    THEN Some(Round(price, size_sqm[1]))
    ELSE None

tx_price_per_sqm(t) == PricePerSqm(t.deal_amount, t.size_sqm)
listing_price_per_sqm(l) == PricePerSqm(l.price, l.size_sqm)
comp_price_per_sqm(c) == PricePerSqm(c.price, c.size_sqm)

----------------------------------------------------------------------------
(* analyzer.py: build_comparables *)

TxToComparable(tx) ==
    [ source |-> "nadlan.gov.il", address |-> tx.address, price |-> tx.deal_amount,
      rooms |-> tx.rooms, floor |-> tx.floor, size_sqm |-> tx.size_sqm,
      building_year |-> tx.building_year, deal_date |-> tx.deal_date,
      is_listed |-> FALSE ]

ListingToComparable(l) ==
    [ source |-> "yad2", address |-> l.address, price |-> l.price,
      rooms |-> l.rooms, floor |-> l.floor, size_sqm |-> l.size_sqm,
      building_year |-> l.building_year, deal_date |-> l.date_listed,
      is_listed |-> TRUE ]

build_comparables(transactions, lsts) ==
    [i \in 1..Len(transactions) |-> TxToComparable(transactions[i])]
        \o [i \in 1..Len(lsts) |-> ListingToComparable(lsts[i])]

----------------------------------------------------------------------------
(* analyzer.py: estimate_value *)

\* datetime.now().date() as a day ordinal
Today == 20000
DaysPerMonth == 30
MinClosed == 3
DefaultSize == 80
\* 0.92 = LowNum / PctDen and 1.08 = HighNum / PctDen
LowNum == 23
HighNum == 27
PctDen == 25
MediumCount == 5
HighCount == 10
\* a weight w is kept as the integer w * WeightScale: four factors in tenths
WeightScale == 10 * 10 * 10 * 10

IsClosedUsable(c) == ~c.is_listed /\ Truthy(comp_price_per_sqm(c)) /\ c.price > 0
IsUsable(c) == Truthy(comp_price_per_sqm(c)) /\ c.price > 0

\* a pool that always takes the listings in
Pool_WithListings(comparables) == SelectSeq(comparables, IsUsable)

\* lines 232-236: closed comparables, or everything usable when fewer than 3
Pool(comparables) ==
    LET valid == SelectSeq(comparables, IsClosedUsable)
    IN  IF Len(valid) < MinClosed THEN SelectSeq(comparables, IsUsable) ELSE valid

\* sales older than 36 months weighted 0.5
RecencyFactor_HalvesOld(comp) ==
    IF IsNone(comp.deal_date) THEN 10
    ELSE LET days == Today - comp.deal_date[1]
         IN  IF days <= 6 * DaysPerMonth THEN 15
             ELSE IF days <= 12 * DaysPerMonth THEN 12
             ELSE IF days > 36 * DaysPerMonth THEN 5
             ELSE 10

\* months_ago = days / 30 compared with 6, 12, 36; factors in tenths
RecencyFactor(comp) ==
    IF IsNone(comp.deal_date) THEN 10
    ELSE LET days == Today - comp.deal_date[1]
         IN  IF days <= 6 * DaysPerMonth THEN 15
             ELSE IF days <= 12 * DaysPerMonth THEN 12
             ELSE IF days > 36 * DaysPerMonth THEN 6
             ELSE 10

\* "within one room" taken as strictly less than one room
RoomFactor_Strict(subject_rooms, comp) ==
    IF Truthy(subject_rooms) /\ Truthy(comp.rooms)
    THEN LET room_diff == Abs(subject_rooms[1] - comp.rooms[1])
         IN  IF room_diff = 0 THEN 13
             ELSE IF room_diff < 2 THEN 10
             ELSE 7
    ELSE 10

\* rooms are in half-rooms: a difference of one room is 2
RoomFactor(subject_rooms, comp) ==
    IF Truthy(subject_rooms) /\ Truthy(comp.rooms)
    THEN LET room_diff == Abs(subject_rooms[1] - comp.rooms[1])
         IN  IF room_diff = 0 THEN 13
             ELSE IF room_diff <= 2 THEN 10
             ELSE 7
    ELSE 10

FloorFactor(subject_floor, comp) ==
    IF ~IsNone(subject_floor) /\ ~IsNone(comp.floor)
    THEN LET floor_diff == Abs(subject_floor[1] - comp.floor[1])
         IN  IF floor_diff <= 1 THEN 12
             ELSE IF floor_diff > 5 THEN 8
             ELSE 10
    ELSE 10

YearFactor(subject_building_year, comp) ==
    IF Truthy(subject_building_year) /\ Truthy(comp.building_year)
    THEN LET age_diff == Abs(subject_building_year[1] - comp.building_year[1])
         IN  IF age_diff <= 5 THEN 12
             ELSE IF age_diff > 20 THEN 8
             ELSE 10
    ELSE 10

\* the weight of one pool member, times WeightScale
Weight(comp, subject) ==
    RecencyFactor(comp) * RoomFactor(subject.rooms, comp)
        * FloorFactor(subject.floor, comp) * YearFactor(subject.building_year, comp)

\* sum(weighted_prices) and sum(weights), both times WeightScale
WeightedSum(valid, subject) ==
    SumSeq([i \in 1..Len(valid) |->
                comp_price_per_sqm(valid[i])[1] * Weight(valid[i], subject)])
WeightSum(valid, subject) ==
    SumSeq([i \in 1..Len(valid) |-> Weight(valid[i], subject)])

HasSize(c) == Truthy(c.size_sqm) /\ c.size_sqm[1] > 0

\* the default taken whenever the subject size is missing
SizeUsed_Default(valid, subject_size) ==
    IF Truthy(subject_size) THEN <<subject_size[1], 1>> ELSE <<DefaultSize, 1>>

\* lines 295-298: the size used, as <<numerator, denominator>>
SizeUsed(valid, subject_size) ==
    IF Truthy(subject_size) THEN <<subject_size[1], 1>>
    ELSE LET sized == SelectSeq(valid, HasSize)
             sizes == [i \in 1..Len(sized) |-> sized[i].size_sqm[1]]
         IN  IF sizes # <<>> THEN <<SumSeq(sizes), Len(sizes)>>
             ELSE <<DefaultSize, 1>>

\* the tiers with strict comparisons
Confidence_Strict(n) ==
    IF n > HighCount THEN "high"
    ELSE IF n > MediumCount THEN "medium"
    ELSE "low"

Confidence(n) ==
    IF n >= HighCount THEN "high"
    ELSE IF n >= MediumCount THEN "medium"
    ELSE "low"

\* None, or Some(ValueEstimation)
estimate_value(comparables, subject) ==
    LET valid == Pool(comparables)
    IN  IF valid = <<>> THEN None
        ELSE LET num == WeightedSum(valid, subject)
                 den == WeightSum(valid, subject)
                 size == SizeUsed(valid, subject.size)
             IN  Some([ estimated_price_low |->
                            Round(LowNum * num * size[1], PctDen * den * size[2]),
                        estimated_price_mid |-> Round(num * size[1], den * size[2]),
                        estimated_price_high |->
                            Round(HighNum * num * size[1], PctDen * den * size[2]),
                        estimated_price_per_sqm |-> Round(num, den),
                        confidence |-> Confidence(Len(valid)),
                        comparable_count |-> Len(valid) ])

\* the call as generate_report makes it (lines 354, 362-368), with the locals
\* `valid` and `weights` of estimate_value kept beside its return value
EstimateCall(transactions, lsts, subject) ==
    LET comparables == build_comparables(transactions, lsts)
        valid == Pool(comparables)
    IN  [ valid |-> valid,
          weights |-> [i \in 1..Len(valid) |-> Weight(valid[i], subject)],
          value |-> estimate_value(comparables, subject) ]

NoCall == [valid |-> <<>>, weights |-> <<>>, value |-> None]

----------------------------------------------------------------------------
(* Inputs of the estimator specifications *)

Tx(a, amount, date, rooms, floor, size, year) ==
    [ address |-> a, deal_amount |-> amount, deal_date |-> date, rooms |-> rooms,
      floor |-> floor, size_sqm |-> size, building_year |-> year ]
Listing(a, price, date, rooms, floor, size, year) ==
    [ address |-> a, price |-> price, date_listed |-> date, rooms |-> rooms,
      floor |-> floor, size_sqm |-> size, building_year |-> year ]
Subject(rooms, floor, size, year) ==
    [ rooms |-> rooms, floor |-> floor, size |-> size, building_year |-> year ]

\* a recent 3-room sale (4 per sqm), an old 4-room sale (7.5, rounds to 8), a sale
\* without a size, a sale whose price per sqm rounds to 0, an undated sale (2.5 -> 2)
SmallTx ==
    { Tx("a1", 20, Some(Today - 100), Some(6), None, Some(5), None),
      Tx("a2", 30, Some(Today - 1200), Some(8), None, Some(4), None),
      Tx("a3", 30, Some(Today - 100), Some(6), None, None, None),
      Tx("a4", 1, None, Some(6), None, Some(4), None) }
SmallListings ==
    { Listing("l1", 27, Some(Today - 10), Some(6), None, Some(3), None),
      Listing("l2", 27, None, Some(6), None, None, None) }
SmallSubjects ==
    { Subject(r, None, s, None) : r \in {None, Some(6)}, s \in {None, Some(3)} }

\* every class of every weight dimension, with the boundary values
FullTx ==
    { Tx("a1", 20, d, r, f, Some(4), y) :
        d \in {None} \cup { Some(Today - k) : k \in {0, 180, 181, 360, 361, 1080, 1081} },
        r \in {None, Some(6), Some(7), Some(8), Some(9)},
        f \in {None, Some(0), Some(1), Some(2), Some(5), Some(6)},
        y \in {None, Some(2000), Some(2005), Some(2006), Some(2020), Some(2021)} }
FullSubjects ==
    { Subject(r, f, None, y) :
        r \in {None, Some(6)}, f \in {None, Some(0)}, y \in {None, Some(2000)} }

\* two kinds of sale only, for long lists
BulkTx ==
    { Tx("a1", 20, None, None, None, Some(2), None),
      Tx("a3", 30, None, None, None, None, None) }
BulkListings == { Listing("l1", 18, None, None, None, Some(2), None) }
BulkSubjects == { Subject(None, None, None, None) }

MaxEstTx == 4
MaxEstListings == 2
MaxWeightTx == 1
MaxConfTx == 10
MaxConfListings == 1

----------------------------------------------------------------------------
(* The estimator as a state machine: collect the inputs, then call it once *)

RunIdle ==
    /\ pc = "Idle" /\ address = <<>> /\ include_ai = FALSE
    /\ progress_callback = "None" /\ api_key = "absent"
    /\ city = <<>> /\ neighborhood = <<>> /\ errors = <<>>
    /\ transactions_street = <<>> /\ transactions_neighborhood = <<>>
    /\ transactions_city = <<>> /\ listings = <<>>
    /\ report = None /\ returned = FALSE /\ raisedBy = "" /\ ai_call = ""
    /\ progress = <<>> /\ visited = <<>> /\ stepResult = <<>> /\ discarded = 0
    /\ calls = <<>>

EstInit(Subjects) ==
    /\ e_pc = "input"
    /\ e_transactions = <<>>
    /\ e_listings = <<>>
    /\ e_subject \in Subjects
    /\ e_result = NoCall
    /\ RunIdle /\ ParseIdle /\ AnalysisIdle /\ NadlanIdle /\ Yad2Idle
    /\ OthersIdle

EstAddTransaction(Catalog, Max) ==
    /\ e_pc = "input"
    /\ Len(e_transactions) < Max
    /\ \E t \in Catalog : e_transactions' = Append(e_transactions, t)
    /\ UNCHANGED <<e_pc, e_listings, e_subject, e_result, runVars, parseVars, analysisVars,
                 nadlanVars, yad2Vars, mergeVars, storeVars, pairVars>>

EstAddListing(Catalog, Max) ==
    /\ e_pc = "input"
    /\ Len(e_listings) < Max
    /\ \E l \in Catalog : e_listings' = Append(e_listings, l)
    /\ UNCHANGED <<e_pc, e_transactions, e_subject, e_result, runVars, parseVars, analysisVars,
                 nadlanVars, yad2Vars, mergeVars, storeVars, pairVars>>

EstEstimate ==
    /\ e_pc = "input"
    /\ e_result' = EstimateCall(e_transactions, e_listings, e_subject)
    /\ e_pc' = "done"
    /\ UNCHANGED <<e_transactions, e_listings, e_subject, runVars, parseVars, analysisVars,
                 nadlanVars, yad2Vars, mergeVars, storeVars, pairVars>>

\* short lists over the small catalogue
EstNext ==
    \/ EstAddTransaction(SmallTx, MaxEstTx)
    \/ EstAddListing(SmallListings, MaxEstListings)
    \/ EstEstimate
SpecEst == EstInit(SmallSubjects) /\ [][EstNext]_vars

\* the first sale ranges over every weight class, further ones over the small catalogue
WeightTxDomain == IF e_transactions = <<>> THEN FullTx ELSE SmallTx
WeightNext ==
    \/ EstAddTransaction(WeightTxDomain, MaxWeightTx)
    \/ EstAddListing(SmallListings, 1)
    \/ EstEstimate
SpecWeights == EstInit(FullSubjects) /\ [][WeightNext]_vars

\* long lists over two kinds of sale
ConfNext ==
    \/ EstAddTransaction(BulkTx, MaxConfTx)
    \/ EstAddListing(BulkListings, MaxConfListings)
    \/ EstEstimate
SpecConf == EstInit(BulkSubjects) /\ [][ConfNext]_vars

----------------------------------------------------------------------------
(* datetime.date: a date is its day count from 1970-01-01 (proleptic Gregorian) *)

\* date(y, m, d)
Date(y, m, d) ==
    LET yy == IF m <= 2 THEN y - 1 ELSE y
        era == yy \div 400
        yoe == yy - era * 400
        mp == IF m > 2 THEN m - 3 ELSE m + 9
        doy == (153 * mp + 2) \div 5 + d - 1
        doe == yoe * 365 + yoe \div 4 - yoe \div 100 + doy
    IN  era * 146097 + doe - 719468

\* <<year, month>> of a date
YearMonth(days) ==
    LET z == days + 719468
        era == z \div 146097
        doe == z - era * 146097
        yoe == (doe - doe \div 1460 + doe \div 36524 - doe \div 146096) \div 365
        doy == doe - (365 * yoe + yoe \div 4 - yoe \div 100)
        mp == (5 * doy + 2) \div 153
        m == IF mp < 10 THEN mp + 3 ELSE mp - 9
    IN  <<yoe + era * 400 + (IF m <= 2 THEN 1 ELSE 0), m>>
YearOf(days) == YearMonth(days)[1]
MonthOf(days) == YearMonth(days)[2]
DayOfMonth(days) == days - Date(YearOf(days), MonthOf(days), 1) + 1

\* datetime.now().year
current_year == YearOf(Today)

----------------------------------------------------------------------------
(* analyzer.py: analyze_floor_prices *)

\* line 108
HasFloorAndAmount(tx) == tx.floor # None /\ tx.deal_amount > 0

\* floor_data[floor], lines 107-109
FloorData(transactions, floor) ==
    SelectSeq(transactions, LAMBDA tx : HasFloorAndAmount(tx) /\ tx.floor[1] = floor)

\* the values of [tx.price_per_sqm for tx in txs if tx.price_per_sqm]
SqmPrices(txs) ==
    LET priced == SelectSeq(txs, LAMBDA tx : Truthy(tx_price_per_sqm(tx)))
    IN  [i \in 1..Len(priced) |-> tx_price_per_sqm(priced[i])[1]]
Amounts(txs) == [i \in 1..Len(txs) |-> txs[i].deal_amount]

\* the integers of a set from the greatest down
RECURSIVE SortedInts_Descending(_)
SortedInts_Descending(S) ==
    IF S = {} THEN <<>>
    ELSE LET m == CHOOSE x \in S : \A y \in S : x >= y
         IN  <<m>> \o SortedInts_Descending(S \ {m})

\* sorted() of a set of integers
RECURSIVE SortedInts(_)
SortedInts(S) ==
    IF S = {} THEN <<>>
    ELSE LET m == CHOOSE x \in S : \A y \in S : x <= y
         IN  <<m>> \o SortedInts(S \ {m})

\* line 117
FloorHasRow(txs) == SqmPrices(txs) # <<>> /\ Amounts(txs) # <<>>

\* lines 118-125
FloorRow(floor, txs) ==
    [ floor |-> floor,
      avg_price_per_sqm |-> Round(SumSeq(SqmPrices(txs)), Len(SqmPrices(txs))),
      transaction_count |-> Len(txs),
      avg_total_price |-> Round(SumSeq(Amounts(txs)), Len(txs)) ]

RECURSIVE FloorRows(_, _)
FloorRows(transactions, floors) ==
    IF floors = <<>> THEN <<>>
    ELSE LET txs == FloorData(transactions, Head(floors))
         IN  (IF FloorHasRow(txs) THEN <<FloorRow(Head(floors), txs)>> ELSE <<>>)
                 \o FloorRows(transactions, Tail(floors))

analyze_floor_prices(transactions) ==
    LET keys == { transactions[i].floor[1] :
                      i \in { j \in 1..Len(transactions) :
                                  HasFloorAndAmount(transactions[j]) } }
    IN  FloorRows(transactions, SortedInts(keys))

----------------------------------------------------------------------------
(* analyzer.py: analyze_building_age *)

\* lines 132-137, in the dict's order
Categories == <<"0-5", "6-15", "16-30", "31+">>
CategoryLow == <<0, 6, 16, 31>>
CategoryHigh == <<5, 15, 30, 200>>

\* brackets that leave their upper bounds out
BracketOf_Exclusive(age) ==
    IF \E c \in 1..Len(Categories) : CategoryLow[c] <= age /\ age < CategoryHigh[c]
    THEN Some(CHOOSE c \in 1..Len(Categories) :
                  /\ CategoryLow[c] <= age /\ age < CategoryHigh[c]
                  /\ \A b \in 1..(c - 1) : ~(CategoryLow[b] <= age /\ age < CategoryHigh[b]))
    ELSE None

\* lines 145-148: the first bracket that holds the age, if any
BracketOf(age) ==
    IF \E c \in 1..Len(Categories) : CategoryLow[c] <= age /\ age <= CategoryHigh[c]
    THEN Some(CHOOSE c \in 1..Len(Categories) :
                  /\ CategoryLow[c] <= age /\ age <= CategoryHigh[c]
                  /\ \A b \in 1..(c - 1) : ~(CategoryLow[b] <= age /\ age <= CategoryHigh[b]))
    ELSE None

\* line 143
HasAge(tx) ==
    Truthy(tx.building_year) /\ tx.building_year[1] > 1900 /\ tx.deal_amount > 0

\* age_data after the loop of lines 142-148, by bracket
AgeData(transactions) ==
    [c \in 1..Len(Categories) |->
        SelectSeq(transactions, LAMBDA tx :
            HasAge(tx) /\ BracketOf(current_year - tx.building_year[1]) = Some(c))]

BuildingYears(txs) ==
    LET dated == SelectSeq(txs, LAMBDA tx : Truthy(tx.building_year))
    IN  [i \in 1..Len(dated) |-> dated[i].building_year[1]]

\* lines 162-177; price_premium_pct is kept in tenths of a percent
AgeRow(c, txs, all_sqm_prices) ==
    LET sqm_prices == SqmPrices(txs)
        years == BuildingYears(txs)
        s == SumSeq(sqm_prices)
        n == Len(sqm_prices)
        total == SumSeq(all_sqm_prices)
        count == Len(all_sqm_prices)
    IN  [ category |-> Categories[c],
          avg_price_per_sqm |-> Round(s, n),
          transaction_count |-> Len(txs),
          avg_building_year |-> IF years # <<>>
                                THEN Some(Round(SumSeq(years), Len(years))) ELSE None,
          price_premium_pct |-> IF total > 0
                                THEN Some(Round(1000 * (s * count - total * n), n * total))
                                ELSE None ]

RECURSIVE AgeRows(_, _, _)
AgeRows(age_data, c, all_sqm_prices) ==
    IF c > Len(Categories) THEN <<>>
    ELSE (IF age_data[c] # <<>> /\ SqmPrices(age_data[c]) # <<>>
          THEN <<AgeRow(c, age_data[c], all_sqm_prices)>> ELSE <<>>)
             \o AgeRows(age_data, c + 1, all_sqm_prices)

analyze_building_age(transactions) ==
    LET age_data == AgeData(transactions)
        all_sqm_prices == SqmPrices(age_data[1]) \o SqmPrices(age_data[2])
                              \o SqmPrices(age_data[3]) \o SqmPrices(age_data[4])
    IN  AgeRows(age_data, 1, all_sqm_prices)

----------------------------------------------------------------------------
(* analyzer.py: analyze_price_trends *)

\* line 187
HasDateAndPrice(tx) == tx.deal_date # None /\ Truthy(tx_price_per_sqm(tx))

\* lines 188-189: the quarter of a dated transaction
PeriodOf(tx) ==
    [year |-> YearOf(tx.deal_date[1]), quarter |-> (MonthOf(tx.deal_date[1]) - 1) \div 3 + 1]

\* the characters of f"{year}-Q{quarter}", each as its code minus the code of "0"
RECURSIVE DecDigits(_)
DecDigits(n) == IF n < 10 THEN <<n>> ELSE DecDigits(n \div 10) \o <<n % 10>>
PeriodString(period) == DecDigits(period.year) \o <<-3, 33, period.quarter>>

\* the order of str
RECURSIVE LexLess(_, _)
LexLess(s, t) ==
    IF t = <<>> THEN FALSE
    ELSE IF s = <<>> THEN TRUE
    ELSE IF Head(s) # Head(t) THEN Head(s) < Head(t)
    ELSE LexLess(Tail(s), Tail(t))

\* line 192: sorted(quarter_data.keys())
RECURSIVE SortedPeriods(_)
SortedPeriods(S) ==
    IF S = {} THEN <<>>
    ELSE LET m == CHOOSE x \in S :
                      \A y \in S \ {x} : LexLess(PeriodString(x), PeriodString(y))
         IN  <<m>> \o SortedPeriods(S \ {m})

\* quarter_data[period], lines 186-190
QuarterData(transactions, period) ==
    SqmPrices(SelectSeq(transactions,
                        LAMBDA tx : HasDateAndPrice(tx) /\ PeriodOf(tx) = period))

\* lines 196-212; prev_avg is None or the rounded average of the row before;
\* change_pct is kept in tenths of a percent
RECURSIVE TrendRows(_, _, _)
TrendRows(transactions, periods, prev_avg) ==
    IF periods = <<>> THEN <<>>
    ELSE LET prices == QuarterData(transactions, Head(periods))
             avg == Round(SumSeq(prices), Len(prices))
             change == IF Truthy(prev_avg) /\ prev_avg[1] > 0
                       THEN Some(Round(1000 * (avg - prev_avg[1]), prev_avg[1]))
                       ELSE None
         IN  <<[ period |-> Head(periods),
                 avg_price_per_sqm |-> avg,
                 transaction_count |-> Len(prices),
                 change_pct |-> change ]>>
                 \o TrendRows(transactions, Tail(periods), Some(avg))

analyze_price_trends(transactions) ==
    LET keys == { PeriodOf(transactions[i]) :
                      i \in { j \in 1..Len(transactions) :
                                  HasDateAndPrice(transactions[j]) } }
    IN  TrendRows(transactions, SortedPeriods(keys), None)

----------------------------------------------------------------------------
(* the three analyses on short lists of transactions *)

MaxAnalysisTx == 3

\* sales as the registry client hands them over (every amount is positive): floors
\* absent, below and above ground; construction years at the bracket bounds,
\* absent, 1900, 1901 and next year; dates absent, in and across quarters and
\* years; sizes absent, and a price per sqm that rounds to 0
AnalysisTx ==
    { Tx("t1", 20, Some(Date(2023, 10, 5)), Some(6), Some(0), Some(5),
         Some(current_year - 5)),
      Tx("t2", 30, Some(Date(2023, 12, 31)), Some(6), Some(2), Some(4),
         Some(current_year - 6)),
      Tx("t3", 30, Some(Date(2024, 1, 1)), Some(6), Some(2), None,
         Some(current_year - 15)),
      Tx("t4", 1, Some(Date(2024, 7, 1)), Some(6), Some(-1), Some(4),
         Some(current_year - 16)),
      Tx("t5", 20, Some(Date(999, 3, 31)), Some(6), None, Some(4),
         Some(current_year - 30)),
      Tx("t6", 24, None, Some(6), Some(0), Some(4), Some(current_year - 31)),
      Tx("t7", 28, Some(Date(2024, 3, 31)), Some(6), Some(1), Some(4), Some(1900)),
      Tx("t8", 36, Some(Date(2024, 9, 30)), Some(6), Some(1), Some(3), Some(1901)),
      Tx("t9", 22, Some(Date(2024, 8, 15)), Some(6), Some(3), Some(2), None),
      Tx("t10", 26, Some(Date(2024, 1, 20)), Some(6), Some(3), Some(2),
         Some(current_year + 1)) }

AnalyzeAll ==
    /\ e_pc = "input"
    /\ a_result' = Some([ floor_analysis |-> analyze_floor_prices(e_transactions),
                          age_data |-> AgeData(e_transactions),
                          building_age_analysis |-> analyze_building_age(e_transactions),
                          price_trends |-> analyze_price_trends(e_transactions) ])
    /\ e_pc' = "done"
    /\ UNCHANGED <<e_transactions, e_listings, e_subject, e_result, runVars, parseVars,
                   nadlanVars, yad2Vars, mergeVars, storeVars, pairVars>>

AnalysisNext ==
    \/ EstAddTransaction(AnalysisTx, MaxAnalysisTx)
    \/ AnalyzeAll

SpecAnalysis == EstInit({Subject(None, None, None, None)}) /\ [][AnalysisNext]_vars

----------------------------------------------------------------------------
(* analyzer.py: generate_report *)

\* the characters of an address; an address without "_" counts as one character
AddressText(a) ==
    CASE a = "x_5.0" -> <<"x", "_", "5", ".", "0">>
      [] OTHER -> <<a>>

\* str() of a whole number, of a whole float and of an Optional date
DigitChars == <<"0", "1", "2", "3", "4", "5", "6", "7", "8", "9">>
IntText(n) == [i \in 1..Len(DecDigits(n)) |-> DigitChars[DecDigits(n)[i] + 1]]
RECURSIVE ZeroPad(_, _)
ZeroPad(text, width) == IF Len(text) >= width THEN text ELSE ZeroPad(<<"0">> \o text, width)
FloatText(x) == IntText(x) \o <<".", "0">>
DateText(date) ==
    IF date = None THEN <<"N", "o", "n", "e">>
    ELSE ZeroPad(IntText(YearOf(date[1])), 4) \o <<"-">>
             \o ZeroPad(IntText(MonthOf(date[1])), 2) \o <<"-">>
             \o ZeroPad(IntText(DayOfMonth(date[1])), 2)

\* a key of the address and the amount alone
TxKey_NoDate(tx) == AddressText(tx.address) \o <<"_">> \o FloatText(tx.deal_amount)

\* the f-string key of line 348
TxKey(tx) ==
    AddressText(tx.address) \o <<"_">> \o FloatText(tx.deal_amount) \o <<"_">>
        \o DateText(tx.deal_date)

\* lines 343-351 over one concatenated list: keep the first record of every key
RECURSIVE MergeLoop(_, _, _)
MergeLoop(txs, seen_keys, all_transactions) ==
    IF txs = <<>> THEN all_transactions
    ELSE IF TxKey(Head(txs)) \in seen_keys
         THEN MergeLoop(Tail(txs), seen_keys, all_transactions)
         ELSE MergeLoop(Tail(txs), seen_keys \cup {TxKey(Head(txs))},
                        Append(all_transactions, Head(txs)))

MergeTransactions(street, hood, town) == MergeLoop(street \o hood \o town, {}, <<>>)

DataSources(lsts) ==
    <<"nadlan.gov.il">> \o (IF lsts # <<>> THEN <<"yad2.co.il">> ELSE <<>>)

generate_report(addr, street, hood, town, lsts, subject) ==
    LET address_parts == parse_address_parts(addr)
        all_transactions == MergeTransactions(street, hood, town)
        comparables == build_comparables(all_transactions, lsts)
    IN  [ subject_address |-> addr,
          subject_city |-> address_parts.city,
          subject_neighborhood |-> address_parts.neighborhood,
          subject_street |-> address_parts.street,
          transactions |-> all_transactions,
          current_listings |-> lsts,
          comparables |-> comparables,
          value_estimation |-> estimate_value(comparables, subject),
          floor_analysis |-> analyze_floor_prices(all_transactions),
          building_age_analysis |-> analyze_building_age(all_transactions),
          price_trends |-> analyze_price_trends(all_transactions),
          ai_summary |-> "",
          data_sources_used |-> DataSources(lsts),
          errors |-> <<>> ]

----------------------------------------------------------------------------
(* ai_summary.py *)

NoKeyPlaceholder == "AI summary unavailable: set ANTHROPIC_API_KEY"
NoPackagePlaceholder == "AI summary unavailable: install anthropic"
CallErrorPlaceholder == "error generating AI summary"
GeneratedSummary == "summary text"
Placeholders == {NoKeyPlaceholder, NoPackagePlaceholder, CallErrorPlaceholder}

\* what the text-generation call of lines 147-165 can do
AiCalls == {"ok", "ImportError", "error"}

HasPositiveAmount(t) == t.deal_amount > 0
HasTruthyPpsqm(t) == Truthy(tx_price_per_sqm(t))

\* _build_prompt, lines 18-25: "" when it builds the prompt, else the exception of
\* min() over no price or of the division by len(sqm_prices) = 0
BuildPromptException(rep) ==
    IF rep.transactions = <<>> THEN ""
    ELSE IF SelectSeq(rep.transactions, HasPositiveAmount) = <<>> THEN "ValueError"
    ELSE IF SelectSeq(rep.transactions, HasTruthyPpsqm) = <<>> THEN "ZeroDivisionError"
    ELSE ""

\* generate_ai_summary: the string returned, or the exception that leaves it
generate_ai_summary(rep, key, call) ==
    IF key = "absent" THEN [raised |-> "", value |-> NoKeyPlaceholder]
    ELSE IF BuildPromptException(rep) # ""
         THEN [raised |-> BuildPromptException(rep), value |-> ""]
    ELSE IF call = "ok" THEN [raised |-> "", value |-> GeneratedSummary]
    ELSE IF call = "ImportError" THEN [raised |-> "", value |-> NoPackagePlaceholder]
    ELSE [raised |-> "", value |-> CallErrorPlaceholder]

----------------------------------------------------------------------------
(* nadlan_client.py and yad2_client.py: the records a result page contributes *)

\* a filter that lets a zero amount through
AcceptedTransaction_NonNegative(tx) == tx.deal_amount >= 0

\* nadlan_client.py line 271
AcceptedTransaction(tx) == tx.deal_amount > 0

\* lines 269-272: the parsed records of one page that are appended
AcceptedTransactions(raws) == SelectSeq(raws, AcceptedTransaction)

\* a feed item: its type tag, what _parse_listing makes of it (None when it
\* fails) and the neighborhood text of the listing, a sequence of characters
Item(type, parsed, hood) == [type |-> type, parsed |-> parsed, neighborhood |-> hood]

\* yad2_client.py lines 201-203
IsPromotional(item) == item.type \in {"ad", "banner", "commercialContent"}

\* `sub in s` on strings
Contains(sub, s) ==
    \E i \in 0..(Len(s) - Len(sub)) : SubSeq(s, i + 1, i + Len(sub)) = sub

\* lines 201-209: the item is appended to the listings
AcceptedItem(item, hood) ==
    /\ ~IsPromotional(item)
    /\ item.parsed # None
    /\ item.parsed[1].price > 0
    /\ ~(hood # <<>> /\ ~Contains(hood, item.neighborhood))

\* lines 199-211: the listings one page of items contributes
AcceptedListings(items, hood) ==
    LET kept == SelectSeq(items, LAMBDA it : AcceptedItem(it, hood))
    IN  [i \in 1..Len(kept) |-> kept[i].parsed[1]]

\* the records of a page left out for their non-positive price
DroppedTransactions(raws) == Len(raws) - Len(AcceptedTransactions(raws))
DroppedListings(items) ==
    Len(SelectSeq(items, LAMBDA it :
            ~IsPromotional(it) /\ it.parsed # None /\ it.parsed[1].price <= 0))

----------------------------------------------------------------------------
(* orchestrator.py: run_market_analysis *)

Steps == {"street", "neighborhood", "city", "listings"}
StepOrder == <<"street", "neighborhood", "city", "listings">>
StageOrder ==
    <<"Resolving", "FetchingStreet", "FetchingNeighborhood", "FetchingCity",
      "FetchingListings", "Analyzing", "Summarizing", "Done">>
StageIndex(stage) == CHOOSE i \in 1..Len(StageOrder) : StageOrder[i] = stage
StageOf(step) ==
    CASE step = "street" -> "FetchingStreet"
      [] step = "neighborhood" -> "FetchingNeighborhood"
      [] step = "city" -> "FetchingCity"
      [] step = "listings" -> "FetchingListings"

\* the table with 0.25 for 0.45 after the city fetch
Pct_CityFoundEarly(event) ==
    CASE event = "start" -> 0
      [] event = "street" -> 5
      [] event = "street_found" -> 15
      [] event = "neighborhood" -> 20
      [] event = "neighborhood_found" -> 30
      [] event = "city" -> 35
      [] event = "city_found" -> 25
      [] event = "listings" -> 50
      [] event = "listings_found" -> 60
      [] event = "analyzing" -> 65
      [] event = "analyzed" -> 75
      [] event = "summarizing" -> 80
      [] event = "summarized" -> 95
      [] event = "ready" -> 100

\* the fractions of the _progress calls, in hundredths (lines 55-149)
Pct(event) ==
    CASE event = "start" -> 0
      [] event = "street" -> 5
      [] event = "street_found" -> 15
      [] event = "neighborhood" -> 20
      [] event = "neighborhood_found" -> 30
      [] event = "city" -> 35
      [] event = "city_found" -> 45
      [] event = "listings" -> 50
      [] event = "listings_found" -> 60
      [] event = "analyzing" -> 65
      [] event = "analyzed" -> 75
      [] event = "summarizing" -> 80
      [] event = "summarized" -> 95
      [] event = "ready" -> 100

\* _progress, lines 50-53, for each event of a list in turn
RECURSIVE Emit(_, _)
Emit(p, events) ==
    IF events = <<>> \/ progress_callback = "None" THEN p
    ELSE Emit(Append(p, Pct(Head(events))), Tail(events))

\* the strings of lines 77, 92, 105 and 122, without the exception text
ErrorString(step) ==
    CASE step = "street" -> "error fetching street transactions"
      [] step = "neighborhood" -> "error fetching neighborhood transactions"
      [] step = "city" -> "error fetching city transactions"
      [] step = "listings" -> "error fetching Yad2 listings"

\* the message of a step's result (lines 73, 89, 102, 119), sent inside the try
FoundEvent(step) ==
    CASE step = "street" -> "street_found"
      [] step = "neighborhood" -> "neighborhood_found"
      [] step = "city" -> "city_found"
      [] step = "listings" -> "listings_found"

\* the except branch of a step runs when the client raises, or when the callback
\* raises on the message of the result
EntersExcept(out, step) == out.kind = "raise" \/ progress_callback = FoundEvent(step)

\* an except branch that starts the list afresh
OnStepError_Reset(errs, step) == <<ErrorString(step)>>

\* errors.append(...) of the except branches
OnStepError(errs, step) == Append(errs, ErrorString(step))

\* the rooms, floor, size_sqm and building_year arguments of the run
RunSubject == Subject(None, None, None, None)

\* what an awaited source client can do: return a list or raise
SeqsUpTo(S, n) == UNION { [1..k -> S] : k \in 0..n }
Returned(l, d) == [kind |-> "return", value |-> l, dropped |-> d]
Raises == [kind |-> "raise", value |-> <<>>, dropped |-> 0]
MaxFetch == 1
RunTx ==
    { Tx("a1", 20, Some(Today - 100), Some(6), None, Some(5), None),
      Tx("a3", 30, Some(Today - 100), Some(6), None, None, None) }
RunListings == { Listing("l1", 27, Some(Today - 10), Some(6), None, Some(3), None) }
\* what the registry and the feed can send: also a blank amount, a blank price, an ad
RunRawTx == RunTx \cup { Tx("a0", 0, Some(Today - 100), Some(6), None, Some(5), None) }
RunItems ==
    { Item("", Some(l), <<"n">>) : l \in RunListings }
        \cup { Item("", Some(Listing("l0", 0, None, Some(6), None, Some(3), None)), <<"n">>),
               Item("ad", None, <<>>) }
\* the clients hand over the accepted records of what they were sent
TxOutcomes ==
    { Returned(AcceptedTransactions(raws), DroppedTransactions(raws)) :
          raws \in SeqsUpTo(RunRawTx, MaxFetch) } \cup {Raises}
ListingOutcomes ==
    { Returned(AcceptedListings(items, neighborhood), DroppedListings(items)) :
          items \in SeqsUpTo(RunItems, MaxFetch) } \cup {Raises}
OutcomeKind(out) ==
    IF out.kind = "raise" THEN "raise"
    ELSE IF out.value = <<>> THEN "empty" ELSE "ok"

\* addresses: no comma; street and city; street, neighborhood and city; three
\* segments with an empty last one; four segments; a leading street word
Addresses ==
    { <<"a", " ", "1">>,
      <<"a", " ", "1", ",", " ", "c">>,
      <<"a", " ", "1", ",", "n", ",", "c">>,
      <<"a", ",", "n", ",">>,
      <<"a", ",", "n", ",", "m", ",", "c">>,
      <<"R", "H", "O", "V", " ", "a", "2", ",", "c">> }

EstIdle ==
    /\ e_pc = "idle" /\ e_transactions = <<>> /\ e_listings = <<>>
    /\ e_subject = RunSubject /\ e_result = NoCall

RunInit(Callbacks) ==
    /\ pc = "Resolving"
    /\ address \in Addresses
    /\ include_ai \in BOOLEAN
    /\ progress_callback \in Callbacks
    /\ api_key \in {"absent", "present"}
    /\ city = <<>> /\ neighborhood = <<>>
    /\ errors = <<>>
    /\ transactions_street = <<>> /\ transactions_neighborhood = <<>>
    /\ transactions_city = <<>> /\ listings = <<>>
    /\ report = None
    /\ returned = FALSE
    /\ raisedBy = ""
    /\ ai_call = ""
    /\ progress = <<>>
    /\ visited = <<"Resolving">>
    /\ stepResult = [s \in Steps |-> "pending"]
    /\ discarded = 0
    /\ calls = <<>>
    /\ EstIdle /\ ParseIdle /\ AnalysisIdle /\ NadlanIdle /\ Yad2Idle
    /\ OthersIdle

\* no callback, or one that returns
Init == RunInit({"None", "ok"})

\* a callback that raises on the message of one step's result
RaisingCallbacks == { FoundEvent(step) : step \in Steps }
CallbackInit == RunInit(RaisingCallbacks)

\* a step left pending by every stage before `stage` was skipped
MarkSkipped(sr, stage) ==
    [s \in Steps |->
        IF sr[s] = "pending" /\ StageIndex(StageOf(s)) < StageIndex(stage)
        THEN "skipped" ELSE sr[s]]

\* `if neighborhood:` in place of `if city and neighborhood:`
AfterStreet_NoCityCheck ==
    IF neighborhood # <<>> THEN "FetchingNeighborhood"
    ELSE IF city # <<>> THEN "FetchingCity"
    ELSE "FetchingListings"

\* lines 83 and 98: the stage after the street fetch, and after the neighborhood fetch
AfterStreet ==
    IF city # <<>> /\ neighborhood # <<>> THEN "FetchingNeighborhood"
    ELSE IF city # <<>> THEN "FetchingCity"
    ELSE "FetchingListings"
AfterNeighborhood == IF city # <<>> THEN "FetchingCity" ELSE "FetchingListings"

\* lines 55-63
Resolve ==
    /\ pc = "Resolving"
    /\ progress' = Emit(progress, <<"start">>)
    /\ city' = parse_address_parts(address).city
    /\ neighborhood' = parse_address_parts(address).neighborhood
    /\ errors' = <<>>
    /\ pc' = "FetchingStreet"
    /\ visited' = Append(visited, "FetchingStreet")
    /\ UNCHANGED <<address, include_ai, progress_callback, api_key, transactions_street,
                   transactions_neighborhood, transactions_city, listings, report,
                   returned, raisedBy, ai_call, stepResult, discarded, calls,
                   estVars, parseVars,
                   analysisVars, nadlanVars, yad2Vars, mergeVars, storeVars, pairVars>>

\* lines 66-79, and the sleep of line 94 when the neighborhood fetch is skipped
FetchStreet ==
    /\ pc = "FetchingStreet"
    /\ \E out \in TxOutcomes :
        /\ transactions_street' = IF EntersExcept(out, "street") THEN <<>> ELSE out.value
        /\ discarded' = discarded + out.dropped
        /\ errors' = IF EntersExcept(out, "street") THEN OnStepError(errors, "street")
                     ELSE errors
        /\ progress' = Emit(progress, IF out.kind = "raise" THEN <<"street">>
                                      ELSE <<"street", "street_found">>)
        /\ stepResult' = MarkSkipped([stepResult EXCEPT !["street"] = OutcomeKind(out)],
                                     AfterStreet)
    /\ pc' = AfterStreet
    /\ visited' = Append(visited, AfterStreet)
    /\ calls' = calls \o <<"get_transactions_for_address", "sleep">>
                     \o (IF AfterStreet = "FetchingNeighborhood" THEN <<>> ELSE <<"sleep">>)
    /\ UNCHANGED <<address, include_ai, progress_callback, api_key, city, neighborhood,
                   transactions_neighborhood, transactions_city, listings, report,
                   returned, raisedBy, ai_call, estVars, parseVars,
                   analysisVars, nadlanVars, yad2Vars, mergeVars, storeVars, pairVars>>

\* lines 82-94, entered when `city and neighborhood`
FetchNeighborhood ==
    /\ pc = "FetchingNeighborhood"
    /\ \E out \in TxOutcomes :
        /\ transactions_neighborhood' = out.value
        /\ discarded' = discarded + out.dropped
        /\ errors' = IF EntersExcept(out, "neighborhood")
                     THEN OnStepError(errors, "neighborhood")
                     ELSE errors
        /\ progress' = Emit(progress, IF out.kind = "raise" THEN <<"neighborhood">>
                                      ELSE <<"neighborhood", "neighborhood_found">>)
        /\ stepResult' =
               MarkSkipped([stepResult EXCEPT !["neighborhood"] = OutcomeKind(out)],
                           AfterNeighborhood)
    /\ pc' = AfterNeighborhood
    /\ visited' = Append(visited, AfterNeighborhood)
    /\ calls' = calls \o <<"search_neighborhood", "sleep">>
    /\ UNCHANGED <<address, include_ai, progress_callback, api_key, city, neighborhood,
                   transactions_street, transactions_city, listings, report,
                   returned, raisedBy, ai_call, estVars, parseVars,
                   analysisVars, nadlanVars, yad2Vars, mergeVars, storeVars, pairVars>>

\* lines 97-105, entered when `city`
FetchCity ==
    /\ pc = "FetchingCity"
    /\ \E out \in TxOutcomes :
        /\ transactions_city' = out.value
        /\ discarded' = discarded + out.dropped
        /\ errors' = IF EntersExcept(out, "city") THEN OnStepError(errors, "city")
                     ELSE errors
        /\ progress' = Emit(progress, IF out.kind = "raise" THEN <<"city">>
                                      ELSE <<"city", "city_found">>)
        /\ stepResult' = [stepResult EXCEPT !["city"] = OutcomeKind(out)]
    /\ pc' = "FetchingListings"
    /\ visited' = Append(visited, "FetchingListings")
    /\ calls' = Append(calls, "search_city")
    /\ UNCHANGED <<address, include_ai, progress_callback, api_key, city, neighborhood,
                   transactions_street, transactions_neighborhood, listings, report,
                   returned, raisedBy, ai_call, estVars, parseVars,
                   analysisVars, nadlanVars, yad2Vars, mergeVars, storeVars, pairVars>>

\* lines 108-122: the progress event always, the search only when `city`
FetchListings ==
    /\ pc = "FetchingListings"
    /\ \E out \in ListingOutcomes :
        IF city # <<>>
        THEN /\ listings' = out.value
             /\ discarded' = discarded + out.dropped
             /\ errors' = IF EntersExcept(out, "listings")
                          THEN OnStepError(errors, "listings")
                          ELSE errors
             /\ progress' = Emit(progress, IF out.kind = "raise" THEN <<"listings">>
                                           ELSE <<"listings", "listings_found">>)
             /\ stepResult' = [stepResult EXCEPT !["listings"] = OutcomeKind(out)]
        ELSE /\ listings' = <<>>
             /\ discarded' = discarded
             /\ errors' = errors
             /\ progress' = Emit(progress, <<"listings">>)
             /\ stepResult' = [stepResult EXCEPT !["listings"] = "skipped"]
    /\ pc' = "Analyzing"
    /\ visited' = Append(visited, "Analyzing")
    /\ calls' = IF city # <<>> THEN Append(calls, "search_similar_listings") ELSE calls
    /\ UNCHANGED <<address, include_ai, progress_callback, api_key, city, neighborhood,
                   transactions_street, transactions_neighborhood, transactions_city,
                   report, returned, raisedBy, ai_call, estVars, parseVars,
                   analysisVars, nadlanVars, yad2Vars, mergeVars, storeVars, pairVars>>

\* lines 125-141, and lines 149-157 when no AI summary is asked for
Analyze ==
    /\ pc = "Analyzing"
    /\ report' = Some([generate_report(address, transactions_street,
                                       transactions_neighborhood, transactions_city,
                                       listings, RunSubject)
                       EXCEPT !.errors = errors])
    /\ progress' = Emit(progress, IF include_ai THEN <<"analyzing", "analyzed">>
                                  ELSE <<"analyzing", "analyzed", "ready">>)
    /\ returned' = ~include_ai
    /\ calls' = Append(calls, "generate_report")
    /\ pc' = IF include_ai THEN "Summarizing" ELSE "Done"
    /\ visited' = Append(visited, IF include_ai THEN "Summarizing" ELSE "Done")
    /\ UNCHANGED <<address, include_ai, progress_callback, api_key, city, neighborhood,
                   errors, transactions_street, transactions_neighborhood,
                   transactions_city, listings, raisedBy, ai_call, stepResult, discarded,
                   estVars, parseVars,
                   analysisVars, nadlanVars, yad2Vars, mergeVars, storeVars, pairVars>>

\* lines 144-157: an exception of generate_ai_summary leaves the coroutine
Summarize ==
    /\ pc = "Summarizing"
    /\ calls' = Append(calls, "generate_ai_summary")
    /\ \E call \in AiCalls :
        LET r == generate_ai_summary(report[1], api_key, call)
        IN  /\ ai_call' = IF api_key = "absent" \/ r.raised # "" THEN "none" ELSE call
            /\ IF r.raised # ""
               THEN /\ raisedBy' = "generate_ai_summary"
                    /\ pc' = "Raised"
                    /\ progress' = Emit(progress, <<"summarizing">>)
                    /\ UNCHANGED <<report, returned, visited>>
               ELSE /\ report' = Some([report[1] EXCEPT !.ai_summary = r.value])
                    /\ progress' = Emit(progress, <<"summarizing", "summarized", "ready">>)
                    /\ returned' = TRUE
                    /\ pc' = "Done"
                    /\ visited' = Append(visited, "Done")
                    /\ UNCHANGED raisedBy
    /\ UNCHANGED <<address, include_ai, progress_callback, api_key, city, neighborhood,
                   errors, transactions_street, transactions_neighborhood,
                   transactions_city, listings, stepResult, discarded,
                   estVars, parseVars,
                   analysisVars, nadlanVars, yad2Vars, mergeVars, storeVars, pairVars>>

Next ==
    \/ Resolve
    \/ FetchStreet
    \/ FetchNeighborhood
    \/ FetchCity
    \/ FetchListings
    \/ Analyze
    \/ Summarize

Spec == Init /\ [][Next]_vars

\* the same run with a callback that raises
SpecCallback == CallbackInit /\ [][Next]_vars

\* the event loop resumes a coroutine whose awaited call has returned or failed
FairSpec == Spec /\ WF_vars(Next)

----------------------------------------------------------------------------
(* nadlan_client.py: get_transactions_for_address = resolve_address, then      *)
(* get_transactions; every HTTP attempt of _fetch_with_retry is one step       *)

Attempts == 3
NadlanRequestDelay == 2

\* what one attempt of _fetch_with_retry can meet (lines 128-146): a 200 with a
\* body, a 429/503, another status or a blank body, a timeout, another exception
AttemptOutcomes == {"ok", "rate_limited", "bad_response", "timeout", "error"}

Request(call, target, attempt) ==
    [ev |-> "request", call |-> call, target |-> target, attempt |-> attempt, secs |-> 0]
Sleep(secs) ==
    [ev |-> "sleep", call |-> "", target |-> 0, attempt |-> 0, secs |-> secs]

\* lines 123-139: the sleep before a retry, the request, the sleep after a 429/503
AttemptLog(log, call, target, attempt, outcome) ==
    log \o (IF attempt > 0 THEN <<Sleep(2 ^ attempt)>> ELSE <<>>)
        \o <<Request(call, target, attempt)>>
        \o (IF outcome = "rate_limited" THEN <<Sleep(5 * (attempt + 1))>> ELSE <<>>)

\* a fourth attempt before giving up
GivesUp_Late(attempt) == attempt >= Attempts

\* line 121: `attempt` was the last of range(3)
GivesUp(attempt) == attempt + 1 >= Attempts

\* lines 164-167
UrlsToTry == IF n_key THEN <<"ScraperAPI", "Direct">> ELSE <<"Direct">>

\* what a 200 body of GetDataByQuery can be: not JSON; falsy JSON; an object; a
\* non-empty list of an object; a non-empty list of something else; another truthy
\* value; an object whose CurrentLavel is not a number
ResolveBodies == {"malformed", "empty", "dict", "list", "list_bad", "scalar", "bad_field"}

\* a body that is taken for a resolution although it is empty
ResolvedParams_Lenient(body) ==
    CASE body \in {"dict", "list"} -> Some([object_id |-> "obj"])
      [] body \in {"scalar", "empty"} -> Some([object_id |-> ""])
      [] OTHER -> None

\* lines 181-214: the NadlanQueryParams built from the body, None when the loop
\* continues with the next transport (lines 186, 190, and the except of line 216)
ResolvedParams(body) ==
    CASE body \in {"dict", "list"} -> Some([object_id |-> "obj"])
      [] body = "scalar" -> Some([object_id |-> ""])
      [] OTHER -> None

\* how one _fetch_with_retry and the handling of its response ended
Fetched(call, target, attempts, end, accepted, is_last) ==
    [call |-> call, target |-> target, attempts |-> attempts, end |-> end,
     accepted |-> accepted, is_last |-> is_last]

NoResult == [params |-> None, transactions |-> None, raised |-> ""]

\* what a 200 body of GetAssestAndDeals can be
PageTx(a, amount) == Tx(a, amount, Some(Today - 100), Some(6), None, Some(5), None)
\* the AllResults of a page: none, a sale, a blank amount before a sale
PageResults == { <<>>, <<PageTx("p1", 20)>>, <<PageTx("p0", 0), PageTx("p2", 30)>> }
MaxPages == 3
PageBody(kind, raws, bad, is_last) ==
    [kind |-> kind, raws |-> raws, bad |-> bad, is_last |-> is_last]
\* not JSON; JSON that is no object; an object with its AllResults, a record
\* after them that _parse_transaction fails on or not, and its IsLastPage
PageBodies ==
    { PageBody("malformed", <<>>, FALSE, "missing"),
      PageBody("not_object", <<>>, FALSE, "missing") }
    \cup { PageBody("object", raws, bad, is_last) :
               raws \in PageResults,
               bad \in BOOLEAN, is_last \in {"missing", "true", "false"} }

\* a loop that never takes the page for the last one
IsLastPage_Never(body) == FALSE

\* line 275: data.get("IsLastPage", True)
IsLastPage(body) == body.is_last \in {"missing", "true"}

\* lines 263-283: how the handling of a 200 body ends
PageEnd(body) ==
    CASE body.kind = "malformed" -> "malformed"
      [] body.kind = "not_object" -> "not_object"
      [] body.raws = <<>> /\ ~body.bad -> "no_results"
      [] body.bad -> "bad_record"
      [] OTHER -> "results"

\* a call of resolve_address (through get_transactions_for_address, line 295)
ResolveInit ==
    /\ n_pc = "resolving"
    /\ n_key \in BOOLEAN
    /\ n_max_pages \in 1..MaxPages
    /\ n_transport = 1
    /\ n_attempt = 0
    /\ n_page = 0
    /\ n_transactions = <<>>
    /\ n_log = <<>>
    /\ n_pages = <<>>
    /\ n_result = NoResult
    /\ RunIdle /\ EstIdle /\ ParseIdle /\ AnalysisIdle /\ Yad2Idle
    /\ OthersIdle

\* a call of get_transactions with the params of a resolved address (line 298)
PagesInit ==
    /\ n_pc = "paging"
    /\ n_key = FALSE
    /\ n_max_pages \in 1..MaxPages
    /\ n_transport = 1
    /\ n_attempt = 0
    /\ n_page = 1
    /\ n_transactions = <<>>
    /\ n_log = <<>>
    /\ n_pages = <<>>
    /\ n_result = [NoResult EXCEPT !.params = Some([object_id |-> "obj"])]
    /\ RunIdle /\ EstIdle /\ ParseIdle /\ AnalysisIdle /\ Yad2Idle
    /\ OthersIdle

\* resolve_address, lines 169-221: one attempt for the transport in turn
ResolveAttempt ==
    /\ n_pc = "resolving"
    /\ \E outcome \in AttemptOutcomes, body \in ResolveBodies :
        LET ended == \/ outcome = "ok"
                     \/ GivesUp(n_attempt)
            end == IF outcome = "ok" THEN body ELSE "no_response"
            params == IF outcome = "ok" THEN ResolvedParams(body) ELSE None
            more == n_transport < Len(UrlsToTry)
        IN  /\ outcome # "ok" => body = "empty"
            /\ n_log' = AttemptLog(n_log, "resolve", n_transport, n_attempt, outcome)
            /\ n_pages' = IF ended
                          THEN Append(n_pages, Fetched("resolve", n_transport,
                                                       n_attempt + 1, end, <<>>, FALSE))
                          ELSE n_pages
            /\ n_attempt' = IF ended THEN 0 ELSE n_attempt + 1
            /\ n_transport' = IF ended /\ params = None /\ more
                              THEN n_transport + 1 ELSE n_transport
            /\ n_pc' = CASE ~ended -> "resolving"
                         [] ended /\ params # None -> "paging"
                         [] ended /\ params = None /\ more -> "resolving"
                         [] OTHER -> "returned"
            /\ n_page' = IF ended /\ params # None THEN 1 ELSE n_page
            /\ n_result' =
                   CASE ended /\ params # None -> [n_result EXCEPT !.params = params]
                     [] ended /\ params = None /\ ~more ->
                            [n_result EXCEPT !.transactions = Some(<<>>)]
                     [] OTHER -> n_result
    /\ UNCHANGED <<n_key, n_max_pages, n_transactions, runVars, estVars, parseVars,
                   analysisVars, yad2Vars, mergeVars, storeVars, pairVars>>

\* get_transactions, lines 234-286: one attempt for the page in turn
PageAttempt ==
    /\ n_pc = "paging"
    /\ \E outcome \in AttemptOutcomes, body \in PageBodies :
        LET ended == \/ outcome = "ok"
                     \/ GivesUp(n_attempt)
            end == IF outcome = "ok" THEN PageEnd(body) ELSE "no_response"
            accepted == IF outcome = "ok" /\ body.kind = "object"
                        THEN AcceptedTransactions(body.raws) ELSE <<>>
            goes_on == /\ outcome = "ok"
                       /\ PageEnd(body) = "results"
                       /\ ~IsLastPage(body)
            more == n_page < n_max_pages
            all == n_transactions \o accepted
        IN  /\ outcome # "ok" => body = PageBody("malformed", <<>>, FALSE, "missing")
            /\ n_log' = AttemptLog(n_log, "page", n_page, n_attempt, outcome)
                            \o (IF goes_on THEN <<Sleep(NadlanRequestDelay)>> ELSE <<>>)
            /\ n_pages' = IF ended
                          THEN Append(n_pages,
                                      Fetched("page", n_page, n_attempt + 1, end, accepted,
                                              outcome = "ok" /\ body.is_last = "true"))
                          ELSE n_pages
            /\ n_attempt' = IF ended THEN 0 ELSE n_attempt + 1
            /\ n_transactions' = all
            /\ n_page' = IF goes_on /\ more THEN n_page + 1 ELSE n_page
            /\ n_pc' = IF ~ended \/ (goes_on /\ more) THEN "paging" ELSE "returned"
            /\ n_result' = IF ~ended \/ (goes_on /\ more) THEN n_result
                           ELSE [n_result EXCEPT !.transactions = Some(all)]
    /\ UNCHANGED <<n_key, n_max_pages, n_transport, runVars, estVars, parseVars,
                   analysisVars, yad2Vars, mergeVars, storeVars, pairVars>>

SpecResolve == ResolveInit /\ [][ResolveAttempt]_vars

SpecPages == PagesInit /\ [][PageAttempt]_vars

\* a whole call of get_transactions_for_address (lines 289-298) without a relay
\* key: resolve_address, then get_transactions on the params it returned
MaxCallPages == 2
CallInit ==
    /\ n_pc = "resolving"
    /\ n_key = FALSE
    /\ n_max_pages \in 1..MaxCallPages
    /\ n_transport = 1
    /\ n_attempt = 0
    /\ n_page = 0
    /\ n_transactions = <<>>
    /\ n_log = <<>>
    /\ n_pages = <<>>
    /\ n_result = NoResult
    /\ RunIdle /\ EstIdle /\ ParseIdle /\ AnalysisIdle /\ Yad2Idle
    /\ OthersIdle
CallNext == ResolveAttempt \/ PageAttempt
SpecCall == CallInit /\ [][CallNext]_vars

----------------------------------------------------------------------------
(* yad2_client.py: search_listings; every page request is one step *)

Yad2RequestDelay == 3
MaxFeedPages == 3

FeedListing(a, price) == Listing(a, price, None, Some(6), None, Some(3), None)
\* the feed_items of a page: none; an ad alone; an ad and a listing; a listing
\* without a price; a listing of another neighborhood
FeedItemLists ==
    { <<>>,
      <<Item("ad", None, <<>>)>>,
      <<Item("banner", None, <<>>), Item("", Some(FeedListing("f1", 27)), <<"n">>)>>,
      <<Item("", Some(FeedListing("f0", 0)), <<"n">>)>>,
      <<Item("", Some(FeedListing("f2", 30)), <<"m">>)>> }

FeedResponse(kind, items, bad, total_pages) ==
    [kind |-> kind, items |-> items, bad |-> bad, total_pages |-> total_pages]
\* a 403; another error status; a transport or JSON exception; a feed with its
\* items, an entry after them that is no object or not, and its total_pages
FeedResponses ==
    { FeedResponse(k, <<>>, FALSE, None) : k \in {"403", "http_error", "error"} }
    \cup { FeedResponse("feed", items, bad, total) :
               items \in FeedItemLists, bad \in BOOLEAN,
               total \in {None} \cup { Some(n) : n \in 1..MaxFeedPages } }

\* line 216: feed.get("total_pages", 1)
TotalPages(resp) == IF resp.total_pages = None THEN 1 ELSE resp.total_pages[1]

\* lines 184-227: how the handling of a response ends
FeedEnd(resp) ==
    CASE resp.kind # "feed" -> resp.kind
      [] resp.items = <<>> /\ ~resp.bad -> "no_items"
      [] resp.bad -> "bad_item"
      [] OTHER -> "items"

Yad2Init ==
    /\ y_pc = "paging"
    /\ y_max_pages \in 1..MaxFeedPages
    /\ y_neighborhood \in {<<>>, <<"n">>}
    /\ y_page = 1
    /\ y_listings = <<>>
    /\ y_pages = <<>>
    /\ y_result = None
    /\ RunIdle /\ EstIdle /\ ParseIdle /\ AnalysisIdle /\ NadlanIdle
    /\ OthersIdle

\* one turn of the loop of lines 178-227, and the return of line 230 after the last
FeedPage ==
    /\ y_pc = "paging"
    /\ \E resp \in FeedResponses :
        LET accepted == IF resp.kind = "feed"
                        THEN AcceptedListings(resp.items, y_neighborhood) ELSE <<>>
            goes_on == FeedEnd(resp) = "items" /\ y_page < TotalPages(resp)
            more == y_page < y_max_pages
            all == y_listings \o accepted
        IN  /\ y_listings' = all
            /\ y_pages' = Append(y_pages,
                                 [page |-> y_page, end |-> FeedEnd(resp),
                                  items |-> resp.items, accepted |-> accepted,
                                  total_pages |-> resp.total_pages,
                                  slept |-> IF goes_on THEN Yad2RequestDelay ELSE 0])
            /\ y_page' = IF goes_on /\ more THEN y_page + 1 ELSE y_page
            /\ y_pc' = IF goes_on /\ more THEN "paging" ELSE "returned"
            /\ y_result' = IF goes_on /\ more THEN None ELSE Some(all)
    /\ UNCHANGED <<y_max_pages, y_neighborhood, runVars, estVars, parseVars,
                   analysisVars, nadlanVars, mergeVars, storeVars, pairVars>>

SpecYad2 == Yad2Init /\ [][FeedPage]_vars

----------------------------------------------------------------------------
(* analyzer.py: parse_address_parts called on short addresses *)

MaxAddressLen == 5
MaxParseCalls == 2

\* a letter, a digit, the comma and the blank; with and without the street word
AddressChars == {"a", "1", ",", " "}
ParseInputs ==
    { pre \o body : pre \in {<<>>, StreetWord, StreetWord \o <<" ">>},
                    body \in SeqsUpTo(AddressChars, MaxAddressLen) }

ParseInit ==
    /\ p_address \in ParseInputs
    /\ p_results = <<>>
    /\ RunIdle /\ EstIdle /\ AnalysisIdle /\ NadlanIdle /\ Yad2Idle
    /\ OthersIdle

ParseCall ==
    /\ Len(p_results) < MaxParseCalls
    /\ p_results' = Append(p_results, parse_address_parts(p_address))
    /\ UNCHANGED <<p_address, runVars, estVars, analysisVars, nadlanVars, yad2Vars, mergeVars, storeVars, pairVars>>

SpecParse == ParseInit /\ [][ParseCall]_vars

----------------------------------------------------------------------------
(* analyzer.py: the merge of generate_report on three short lists *)

MaxMergeTx == 3

\* one sale twice with different sizes, the same sale on another day and undated,
\* and a sale whose address ends like the amount of the others
MergeTx ==
    { Tx("x", 5, Some(Date(2024, 1, 9)), Some(6), None, Some(4), None),
      Tx("x", 5, Some(Date(2024, 1, 9)), Some(6), None, Some(5), None),
      Tx("x", 5, Some(Date(2024, 11, 9)), Some(6), None, Some(4), None),
      Tx("x", 5, None, Some(6), None, Some(4), None),
      Tx("x_5.0", 5, Some(Date(2024, 1, 9)), Some(6), None, Some(4), None) }

MergeInit ==
    /\ m_street = <<>> /\ m_hood = <<>> /\ m_town = <<>> /\ m_result = <<>>
    /\ RunIdle /\ EstIdle /\ ParseIdle /\ AnalysisIdle /\ NadlanIdle /\ Yad2Idle
    /\ StoreIdle /\ PairIdle

\* one more sale in one of the three lists handed to generate_report
MergeAdd ==
    /\ m_result = <<>>
    /\ Len(m_street) + Len(m_hood) + Len(m_town) < MaxMergeTx
    /\ \E tx \in MergeTx :
        \/ m_street' = Append(m_street, tx) /\ UNCHANGED <<m_hood, m_town>>
        \/ m_hood' = Append(m_hood, tx) /\ UNCHANGED <<m_street, m_town>>
        \/ m_town' = Append(m_town, tx) /\ UNCHANGED <<m_street, m_hood>>
    /\ UNCHANGED <<m_result, runVars, estVars, parseVars, analysisVars, nadlanVars,
                   yad2Vars, storeVars, pairVars>>

\* lines 342-351
MergeCall ==
    /\ m_result = <<>>
    /\ m_result' = Some(MergeTransactions(m_street, m_hood, m_town))
    /\ UNCHANGED <<m_street, m_hood, m_town, runVars, estVars, parseVars, analysisVars,
                   nadlanVars, yad2Vars, storeVars, pairVars>>

MergeNext == MergeAdd \/ MergeCall
SpecMerge == MergeInit /\ [][MergeNext]_vars

----------------------------------------------------------------------------
(* transactions.py: the session store; a transaction is its id and a payload *)

MaxStore == 3
MaxBatch == 2

\* from_nadlan_transaction gives two sales of one parcel on one day the same id;
\* import_transactions_from_bytes numbers the rows of a file
StoreTx == { [id |-> i, payload |-> v] : i \in {"nadlan_1_2_d", "csv_0"},
                                         v \in {"u", "v"} }
Batches == SeqsUpTo(StoreTx, MaxBatch)

StoreInit ==
    /\ s_store = <<>>
    /\ s_last = <<>>
    /\ RunIdle /\ EstIdle /\ ParseIdle /\ AnalysisIdle /\ NadlanIdle /\ Yad2Idle
    /\ MergeIdle /\ PairIdle

\* add_transactions_to_session, lines 416-423
add_transactions_to_session(new_txs) ==
    /\ Len(s_store) + Len(new_txs) <= MaxStore
    /\ LET existing == s_store
           existing_ids == { existing[i].id : i \in 1..Len(existing) }
           added == SelectSeq(new_txs, LAMBDA t : t.id \notin existing_ids)
       IN  /\ s_store' = existing \o added
           /\ s_last' = Some([batch |-> new_txs, before |-> existing,
                              returned |-> Len(added)])
    /\ UNCHANGED <<runVars, estVars, parseVars, analysisVars, nadlanVars, yad2Vars,
                   mergeVars, pairVars>>

\* clear_session_transactions, lines 426-428
clear_session_transactions ==
    /\ s_store' = <<>>
    /\ s_last' = <<>>
    /\ UNCHANGED <<runVars, estVars, parseVars, analysisVars, nadlanVars, yad2Vars,
                   mergeVars, pairVars>>

StoreNext ==
    \/ \E new_txs \in Batches : add_transactions_to_session(new_txs)
    \/ clear_session_transactions

SpecStore == StoreInit /\ [][StoreNext]_vars

----------------------------------------------------------------------------
(* Claims about run_market_analysis *)

Range(f) == { f[i] : i \in DOMAIN f }
Last(q) == q[Len(q)]
Parsed == parse_address_parts(address)
FetchesOver == pc \in {"Analyzing", "Summarizing", "Done", "Raised"}
ResultOf(step) ==
    CASE step = "street" -> transactions_street
      [] step = "neighborhood" -> transactions_neighborhood
      [] step = "city" -> transactions_city
      [] step = "listings" -> listings

\* C1: whatever the four fetches do (return records, return nothing, raise), the run
\* ends only by emitting its final progress event and returning a report.
C1_EndsInDone ==
    /\ pc \in Range(StageOrder)
    /\ raisedBy = ""
    /\ pc = "Done" =>
           /\ returned
           /\ report # None
           /\ (progress_callback # "None" => Last(progress) = 100)

\* C2: when every fetch returns an empty list and the AI summary is requested
\* without a credential, the run returns a report with no transactions, no listings,
\* no value estimation, a placeholder summary and at least one error string.
C2_OutageRecordsError ==
    (/\ pc = "Done"
     /\ include_ai /\ api_key = "absent"
     /\ \A s \in Steps : stepResult[s] = "empty")
    => /\ returned
       /\ report[1].transactions = <<>>
       /\ report[1].current_listings = <<>>
       /\ report[1].value_estimation = None
       /\ report[1].ai_summary \in Placeholders
       /\ Len(report[1].errors) >= 1

RaisedSteps == SelectSeq(StepOrder, LAMBDA s : stepResult[s] = "raise")

\* C3: a data-source step whose fetch raises appends exactly one string for that
\* step to the errors (so the errors are the strings of the failed steps, in step
\* order, earlier ones kept), leaves an empty result for the step, and no later step
\* is dropped: a step is skipped only for the lack of a city or neighborhood.
C3_FailedStepRecorded ==
    /\ errors = [i \in 1..Len(RaisedSteps) |-> ErrorString(RaisedSteps[i])]
    /\ \A s \in Steps : stepResult[s] = "raise" => ResultOf(s) = <<>>
    /\ FetchesOver =>
           /\ \A s \in Steps : stepResult[s] # "pending"
           /\ stepResult["street"] # "skipped"
           /\ stepResult["neighborhood"] = "skipped" =>
                  (Parsed.city = <<>> \/ Parsed.neighborhood = <<>>)
           /\ stepResult["city"] = "skipped" => Parsed.city = <<>>
           /\ stepResult["listings"] = "skipped" => Parsed.city = <<>>
    /\ report # None =>
           /\ report[1].errors = errors
           /\ (stepResult["listings"] = "raise" => report[1].current_listings = <<>>)
           /\ ((\A s \in Steps \ {"listings"} : stepResult[s] \in {"raise", "skipped"})
                   => report[1].transactions = <<>>)

\* the street and city fetches fail, the neighborhood fetch between them succeeds
C3_Witness ==
    /\ pc = "Done"
    /\ stepResult["street"] = "raise"
    /\ stepResult["neighborhood"] = "ok"
    /\ stepResult["city"] = "raise"
    /\ stepResult["listings"] = "raise"
    /\ Len(report[1].errors) = 3
    /\ report[1].transactions # <<>>

\* C4: the fractions handed to the callback never decrease and lie in [0, 1], and
\* the last one of a completed run is 1.0.
C4_ProgressMonotone ==
    /\ \A i \in 1..Len(progress) : progress[i] >= 0 /\ progress[i] <= 100
    /\ \A i \in 1..(Len(progress) - 1) : progress[i] <= progress[i + 1]
    /\ (pc = "Done" /\ progress_callback # "None") =>
           (progress # <<>> /\ Last(progress) = 100)

\* a completed run with a skipped stage, a failed stage and the AI summary
C4_Witness ==
    /\ pc = "Done"
    /\ progress_callback = "ok"
    /\ include_ai
    /\ stepResult["neighborhood"] = "skipped"
    /\ stepResult["city"] = "raise"
    /\ stepResult["listings"] = "ok"
    /\ Len(progress) = 11

StagesInOrder ==
    /\ \A i \in 1..(Len(visited) - 1) :
           StageIndex(visited[i]) < StageIndex(visited[i + 1])
    /\ pc # "Raised" => pc = Last(visited)

\* C5 as stated: the stages are entered in the fixed order, each at most once; the
\* neighborhood fetch is skipped exactly when the parsed address has no
\* neighborhood, the city fetch exactly when it has no city, the summarizer exactly
\* when no AI summary is requested; the street fetch, the listings fetch and the
\* analysis are never skipped.
C5_SkipsAsClaimed ==
    /\ StagesInOrder
    /\ pc = "Done" =>
           /\ ("FetchingNeighborhood" \notin Range(visited)
                   <=> Parsed.neighborhood = <<>>)
           /\ ("FetchingCity" \notin Range(visited) <=> Parsed.city = <<>>)
           /\ ("Summarizing" \notin Range(visited) <=> ~include_ai)
           /\ stepResult["street"] \notin {"skipped", "pending"}
           /\ stepResult["listings"] \notin {"skipped", "pending"}
           /\ "Analyzing" \in Range(visited) /\ report # None

\* C5 amended: the same, except that the neighborhood fetch is skipped exactly when
\* the parsed address lacks a neighborhood or a city, and that the listings stage is
\* always entered (its progress event is emitted) while the listing search itself
\* is skipped exactly when the parsed address has no city.
C5_StageOrder ==
    /\ StagesInOrder
    /\ pc = "Done" =>
           /\ ("FetchingNeighborhood" \notin Range(visited)
                   <=> (Parsed.neighborhood = <<>> \/ Parsed.city = <<>>))
           /\ (stepResult["neighborhood"] = "skipped"
                   <=> "FetchingNeighborhood" \notin Range(visited))
           /\ ("FetchingCity" \notin Range(visited) <=> Parsed.city = <<>>)
           /\ (stepResult["city"] = "skipped" <=> "FetchingCity" \notin Range(visited))
           /\ ("Summarizing" \notin Range(visited) <=> ~include_ai)
           /\ stepResult["street"] \notin {"skipped", "pending"}
           /\ "FetchingListings" \in Range(visited)
           /\ (stepResult["listings"] = "skipped" <=> Parsed.city = <<>>)
           /\ stepResult["listings"] # "pending"
           /\ "Analyzing" \in Range(visited) /\ report # None

\* a neighborhood without a city: neither the neighborhood fetch nor the listing
\* search runs
C5_Witness ==
    /\ pc = "Done"
    /\ Parsed.neighborhood # <<>>
    /\ Parsed.city = <<>>
    /\ visited = <<"Resolving", "FetchingStreet", "FetchingListings", "Analyzing", "Done">>
    /\ stepResult["listings"] = "skipped"

\* C6: generate_ai_summary never raises; it returns a string, and a placeholder
\* when the credential is absent or the call fails.
C6_SummaryNeverRaises ==
    /\ raisedBy # "generate_ai_summary"
    /\ (pc = "Done" /\ include_ai) =>
           /\ report[1].ai_summary \in Placeholders \cup {GeneratedSummary}
           /\ (api_key = "absent" \/ ai_call \in {"ImportError", "error"})
                  => report[1].ai_summary \in Placeholders

----------------------------------------------------------------------------
(* Claims about estimate_value *)

EstComparables == build_comparables(e_transactions, e_listings)

\* price per sqm is not None: a positive size and a positive price
HasDefinedPpsqm(c) == c.size_sqm # None /\ c.size_sqm[1] > 0 /\ c.price > 0
\* ... and it does not round to 0: price / size > 1/2
HasNonZeroPpsqm(c) == HasDefinedPpsqm(c) /\ 2 * c.price > c.size_sqm[1]
ClosedDefined(c) == ~c.is_listed /\ HasDefinedPpsqm(c)
ClosedNonZero(c) == ~c.is_listed /\ HasNonZeroPpsqm(c)

\* the pool as the claim words it: "positive price and defined price-per-sqm"
PoolDefined(comps) ==
    IF Len(SelectSeq(comps, ClosedDefined)) >= 3
    THEN SelectSeq(comps, ClosedDefined)
    ELSE SelectSeq(comps, HasDefinedPpsqm)
\* the pool with "defined" read as "defined and not 0"
PoolNonZero(comps) ==
    IF Len(SelectSeq(comps, ClosedNonZero)) >= 3
    THEN SelectSeq(comps, ClosedNonZero)
    ELSE SelectSeq(comps, HasNonZeroPpsqm)

\* C7 as stated: the pool is the closed comparables with positive price and defined
\* price-per-sqm when there are at least 3 of them, else all such comparables; there
\* is no estimate iff the pool is empty; with 3 such closed comparables the listings
\* do not change the estimate.
C7_PoolOfDefined ==
    e_pc = "done" =>
        /\ e_result.valid = PoolDefined(EstComparables)
        /\ (e_result.value = None <=> PoolDefined(EstComparables) = <<>>)
        /\ (Len(SelectSeq(EstComparables, ClosedDefined)) >= 3 =>
                e_result.value = EstimateCall(e_transactions, <<>>, e_subject).value)

\* C7 amended: the same with "defined price-per-sqm" replaced by "price-per-sqm that
\* is defined and not 0" (a price per sqm that rounds to 0 is left out of the pool).
C7_PoolOfNonZero ==
    e_pc = "done" =>
        /\ e_result.valid = PoolNonZero(EstComparables)
        /\ (e_result.value = None <=> PoolNonZero(EstComparables) = <<>>)
        /\ (Len(SelectSeq(EstComparables, ClosedNonZero)) >= 3 =>
                e_result.value = EstimateCall(e_transactions, <<>>, e_subject).value)

\* three usable sales and a usable listing: the listing stays out of the pool
C7_Witness ==
    /\ e_pc = "done"
    /\ Len(SelectSeq(EstComparables, ClosedNonZero)) = 3
    /\ \E i \in 1..Len(e_listings) : HasNonZeroPpsqm(ListingToComparable(e_listings[i]))
    /\ \E i \in 1..Len(e_transactions) : ~HasDefinedPpsqm(TxToComparable(e_transactions[i]))
    /\ Len(e_result.valid) = 3
    /\ e_result.value # None

\* the factor table of the claim, in tenths
ClaimedRecency(c) ==
    IF c.deal_date = None THEN 10
    ELSE LET days == Today - c.deal_date[1]
         IN  CASE days <= 180 -> 15
               [] days > 180 /\ days <= 360 -> 12
               [] days > 1080 -> 6
               [] OTHER -> 10
ClaimedRooms(subject, c) ==
    IF subject.rooms = None \/ c.rooms = None THEN 10
    ELSE CASE subject.rooms[1] = c.rooms[1] -> 13
           [] subject.rooms[1] # c.rooms[1]
                /\ Abs(subject.rooms[1] - c.rooms[1]) <= 2 -> 10
           [] OTHER -> 7
ClaimedFloor(subject, c) ==
    IF subject.floor = None \/ c.floor = None THEN 10
    ELSE CASE Abs(subject.floor[1] - c.floor[1]) <= 1 -> 12
           [] Abs(subject.floor[1] - c.floor[1]) > 5 -> 8
           [] OTHER -> 10
ClaimedYear(subject, c) ==
    IF subject.building_year = None \/ c.building_year = None THEN 10
    ELSE CASE Abs(subject.building_year[1] - c.building_year[1]) <= 5 -> 12
           [] Abs(subject.building_year[1] - c.building_year[1]) > 20 -> 8
           [] OTHER -> 10
ClaimedWeight(subject, c) ==
    ClaimedRecency(c) * ClaimedRooms(subject, c)
        * ClaimedFloor(subject, c) * ClaimedYear(subject, c)
RecentExactRooms(subject, c) ==
    /\ c.deal_date # None /\ Today - c.deal_date[1] <= 180
    /\ subject.rooms # None /\ c.rooms # None /\ subject.rooms[1] = c.rooms[1]

WeightsFollowTable ==
    /\ Len(e_result.weights) = Len(e_result.valid)
    /\ \A i \in 1..Len(e_result.valid) :
           e_result.weights[i] = ClaimedWeight(e_subject, e_result.valid[i])

PoolSize == Len(PoolNonZero(EstComparables))

\* C9: whenever there is an estimate, the confidence is low for fewer than 5 pool
\* members, medium for 5 to 9, high for 10 or more, and comparable_count is the
\* pool size.
C9_ConfidenceByPoolSize ==
    (e_pc = "done" /\ e_result.value # None) =>
        /\ e_result.value[1].comparable_count = PoolSize
        /\ (PoolSize < 5 <=> e_result.value[1].confidence = "low")
        /\ (PoolSize >= 5 /\ PoolSize <= 9 <=> e_result.value[1].confidence = "medium")
        /\ (PoolSize >= 10 <=> e_result.value[1].confidence = "high")

C9_Witness ==
    /\ e_pc = "done"
    /\ e_result.value # None
    /\ PoolSize = 10
    /\ e_result.value[1].confidence = "high"

\* n is an integer nearest to p / q (q > 0)
Nearest(n, p, q) == 2 * Abs(n * q - p) <= q

PoolPriceTimesWeight ==
    SumSeq([i \in 1..Len(e_result.valid) |->
                comp_price_per_sqm(e_result.valid[i])[1] * e_result.weights[i]])
PoolWeight == SumSeq(e_result.weights)
KnownSizes ==
    LET known == SelectSeq(e_result.valid, LAMBDA c : c.size_sqm # None)
    IN  [i \in 1..Len(known) |-> known[i].size_sqm[1]]
\* <<numerator, denominator>> of the size the claim names
ClaimedSize ==
    IF e_subject.size # None THEN <<e_subject.size[1], 1>>
    ELSE IF KnownSizes # <<>> THEN <<SumSeq(KnownSizes), Len(KnownSizes)>>
    ELSE <<80, 1>>

\* C10: whenever there is an estimate, the per-sqm estimate is the weighted mean of
\* the pool's prices per sqm (rounded), mid is that mean times the size (the subject
\* size if given, else the mean known size of the pool, else 80), low and high are
\* 0.92 = 23/25 and 1.08 = 27/25 of mid (each rounded), and low <= mid <= high.
C10_EstimateFormula ==
    (e_pc = "done" /\ e_result.value # None) =>
        LET v == e_result.value[1]
            num == PoolPriceTimesWeight * ClaimedSize[1]
            den == PoolWeight * ClaimedSize[2]
        IN  /\ PoolWeight > 0
            /\ Nearest(v.estimated_price_per_sqm, PoolPriceTimesWeight, PoolWeight)
            /\ Nearest(v.estimated_price_mid, num, den)
            /\ Nearest(v.estimated_price_low, 23 * num, 25 * den)
            /\ Nearest(v.estimated_price_high, 27 * num, 25 * den)
            /\ v.estimated_price_low <= v.estimated_price_mid
            /\ v.estimated_price_mid <= v.estimated_price_high

\* no subject size, and two pool members of different weight and price
C10_Witness ==
    /\ e_pc = "done"
    /\ e_result.value # None
    /\ e_subject.size = None
    /\ \E i, j \in 1..Len(e_result.valid) :
           /\ e_result.weights[i] # e_result.weights[j]
           /\ comp_price_per_sqm(e_result.valid[i]) # comp_price_per_sqm(e_result.valid[j])
           /\ e_result.valid[i].size_sqm # e_result.valid[j].size_sqm

----------------------------------------------------------------------------
(* Claims about the prices in a report *)

\* C11: every transaction, listing and comparable of a report has a strictly
\* positive price, because the transaction client drops every record whose amount
\* is not positive and the listing client every listing whose price is not positive.
C11_PositivePrices ==
    /\ \A l \in {transactions_street, transactions_neighborhood, transactions_city} :
           \A i \in 1..Len(l) : l[i].deal_amount > 0
    /\ \A i \in 1..Len(listings) : listings[i].price > 0
    /\ report # None =>
           /\ \A i \in 1..Len(report[1].transactions) :
                  report[1].transactions[i].deal_amount > 0
           /\ \A i \in 1..Len(report[1].current_listings) :
                  report[1].current_listings[i].price > 0
           /\ \A i \in 1..Len(report[1].comparables) :
                  report[1].comparables[i].price > 0
           /\ Len(report[1].comparables) =
                  Len(report[1].transactions) + Len(report[1].current_listings)

\* the registry sent blank amounts and a sale, the feed a listing
C11_Witness ==
    /\ pc = "Done"
    /\ discarded >= 2
    /\ report[1].transactions # <<>>
    /\ report[1].current_listings # <<>>

----------------------------------------------------------------------------
(* Claims about the transaction client *)

PageRequests == SelectSeq(n_log, LAMBDA e : e.ev = "request" /\ e.call = "page")
PageEnds == SelectSeq(n_pages, LAMBDA f : f.call = "page")
Resolutions == SelectSeq(n_pages, LAMBDA f : f.call = "resolve")
RECURSIVE AcceptedUpTo(_)
AcceptedUpTo(k) == IF k = 0 THEN <<>> ELSE AcceptedUpTo(k - 1) \o PageEnds[k].accepted

\* C12: get_transactions requests the pages 1, 2, 3, ... in increasing order and
\* without gaps, at most max_pages of them, none after a page whose response said
\* it was the last, and a page only after the page before it was fetched.
C12_PagesInOrder ==
    LET req == PageRequests
    IN  /\ req # <<>> => req[1].target = 1
        /\ \A i \in 1..(Len(req) - 1) :
               \/ req[i + 1].target = req[i].target
               \/ /\ req[i + 1].target = req[i].target + 1
                  /\ \E k \in 1..Len(PageEnds) :
                         /\ PageEnds[k].target = req[i].target
                         /\ PageEnds[k].end = "results"
        /\ \A i \in 1..Len(req) : req[i].target <= n_max_pages
        /\ \A k \in 1..Len(PageEnds) :
               PageEnds[k].is_last =>
                   \A i \in 1..Len(req) : req[i].target <= PageEnds[k].target

\* three pages allowed, a retry on the way, and the second page says it is the last
C12_Witness ==
    /\ n_pc = "returned"
    /\ n_max_pages = 3
    /\ Len(PageEnds) = 2
    /\ PageEnds[1].end = "results" /\ ~PageEnds[1].is_last
    /\ PageEnds[2].end = "results" /\ PageEnds[2].is_last
    /\ Len(PageRequests) = 3

\* C13: a page gets at most 3 HTTP attempts; when all of them fail the client gives
\* up on the page, requests no later page and returns, without raising, exactly
\* the transactions accumulated from the earlier pages.
C13_GivesUpAfterThree ==
    /\ \A p \in 1..n_max_pages :
           Cardinality({ i \in 1..Len(PageRequests) : PageRequests[i].target = p }) <= 3
    /\ \A k \in 1..Len(PageEnds) :
           PageEnds[k].end = "no_response" =>
               /\ PageEnds[k].attempts = 3
               /\ k = Len(PageEnds)
               /\ \A i \in 1..Len(PageRequests) :
                      PageRequests[i].target <= PageEnds[k].target
               /\ n_pc = "returned"
               /\ n_result.raised = ""
               /\ n_result.transactions = Some(AcceptedUpTo(k - 1))

\* the first page brings a sale, the second fails three times, once with a 429/503
C13_Witness ==
    /\ n_pc = "returned"
    /\ Len(PageEnds) = 2
    /\ PageEnds[1].end = "results" /\ PageEnds[1].accepted # <<>>
    /\ PageEnds[2].end = "no_response"
    /\ n_result.transactions = Some(PageEnds[1].accepted)
    /\ \E i \in 1..Len(n_log) : n_log[i].ev = "sleep" /\ n_log[i].secs = 10

\* a resolution body that is JSON, not empty, and from which the params are built
WellFormed == {"dict", "list", "scalar"}

----------------------------------------------------------------------------
(* Claims about the listing client *)

OnlyPromotional(items) ==
    items # <<>> /\ \A i \in 1..Len(items) : IsPromotional(items[i])

\* C15: search_listings requests no further page after a page whose number reaches
\* the feed's explicit total-page count, after a page with zero items, and after a
\* page with only non-listing items (ad, banner, commercial content).
C15_StopsAfterPromotionalPage ==
    \A k \in 1..Len(y_pages) :
        (\/ (y_pages[k].end = "items" /\ y_pages[k].total_pages # None
                /\ y_pages[k].page >= y_pages[k].total_pages[1])
         \/ y_pages[k].end = "no_items"
         \/ (y_pages[k].end = "items" /\ OnlyPromotional(y_pages[k].items)))
        => k = Len(y_pages)

----------------------------------------------------------------------------
(* Claims about the analyses of a report *)

AnalysisOf == a_result[1]
Analysed == { e_transactions[i] : i \in 1..Len(e_transactions) }

\* the place of a quarter in the calendar
Chronological(period) == 4 * period.year + period.quarter

\* C16: analyze_price_trends emits one row per calendar quarter holding at least
\* one transaction with a date and a price per sqm, in strictly increasing
\* chronological order; change_pct is null in the first row and in every later
\* row is the percent change of the quarter's average against the average of the
\* row before it, however many calendar quarters lie between the two
C16_TrendsChronological ==
    a_result # <<>> =>
        LET rows == AnalysisOf.price_trends
            quarters == { PeriodOf(tx) :
                              tx \in { t \in Analysed :
                                           /\ t.deal_date # None
                                           /\ tx_price_per_sqm(t) \notin {None, Some(0)} } }
        IN  /\ Len(rows) = Cardinality(quarters)
            /\ { rows[i].period : i \in 1..Len(rows) } = quarters
            /\ \A i, j \in 1..Len(rows) :
                   i < j => Chronological(rows[i].period) < Chronological(rows[j].period)
            /\ \A i \in 1..Len(rows) :
                   rows[i].change_pct =
                       IF i = 1 THEN None
                       ELSE Some(Round(1000 * (rows[i].avg_price_per_sqm
                                                   - rows[i - 1].avg_price_per_sqm),
                                       rows[i - 1].avg_price_per_sqm))

\* the brackets of analyze_building_age that hold the i-th transaction
BracketsOf(i) ==
    { c \in 1..Len(Categories) :
          \E k \in 1..Len(AnalysisOf.age_data[c]) :
              AnalysisOf.age_data[c][k] = e_transactions[i] }
BuiltIn(i, year) == e_transactions[i].building_year = Some(year)

\* C17: a transaction built in current_year-5 falls in the bracket [0,5], one
\* built in current_year-6 in [6,15], one built in current_year-15 in [6,15],
\* current_year-16 in [16,30], current_year-30 in [16,30], current_year-31 in
\* [31,200]; a transaction with no construction year, or one of 1900 or
\* earlier, is counted in no bracket; a row counts the transactions of its bracket
C17_BracketBoundaries ==
    a_result # <<>> =>
        /\ \A i \in 1..Len(e_transactions) :
               /\ BuiltIn(i, current_year - 5) => BracketsOf(i) = {1}
               /\ BuiltIn(i, current_year - 6) => BracketsOf(i) = {2}
               /\ BuiltIn(i, current_year - 15) => BracketsOf(i) = {2}
               /\ BuiltIn(i, current_year - 16) => BracketsOf(i) = {3}
               /\ BuiltIn(i, current_year - 30) => BracketsOf(i) = {3}
               /\ BuiltIn(i, current_year - 31) => BracketsOf(i) = {4}
               /\ (\/ e_transactions[i].building_year = None
                   \/ e_transactions[i].building_year[1] <= 1900) => BracketsOf(i) = {}
        /\ \A r \in 1..Len(AnalysisOf.building_age_analysis) :
               \E c \in 1..Len(Categories) :
                   /\ AnalysisOf.building_age_analysis[r].category = Categories[c]
                   /\ AnalysisOf.building_age_analysis[r].transaction_count
                          = Cardinality({ i \in 1..Len(e_transactions) : c \in BracketsOf(i) })

\* a sale built five years ago, one built six years ago and one built in 1900
\* were analysed, and the first two brackets have a row each
C17_Witness ==
    /\ a_result # <<>>
    /\ \E i, j, k \in 1..Len(e_transactions) :
           /\ BuiltIn(i, current_year - 5)
           /\ BuiltIn(j, current_year - 6)
           /\ BuiltIn(k, 1900)
    /\ Len(AnalysisOf.building_age_analysis) = 2

FloorsOfRows == { AnalysisOf.floor_analysis[r].floor : r \in 1..Len(AnalysisOf.floor_analysis) }
FloorRowsAscending ==
    \A r, q \in 1..Len(AnalysisOf.floor_analysis) :
        r < q => AnalysisOf.floor_analysis[r].floor < AnalysisOf.floor_analysis[q].floor
SizedOnFloor(tx) == tx.floor # None /\ tx.size_sqm # None /\ tx.deal_amount > 0

\* C18 as stated: analyze_floor_prices emits exactly one row for each floor with
\* at least one transaction having a size and a positive amount, no row for any
\* other floor, and the rows are in strictly ascending floor order
C18_RowPerSizedFloor ==
    a_result # <<>> =>
        /\ FloorsOfRows = { tx.floor[1] : tx \in { t \in Analysed : SizedOnFloor(t) } }
        /\ Len(AnalysisOf.floor_analysis) = Cardinality(FloorsOfRows)
        /\ FloorRowsAscending

\* C18 amended: analyze_floor_prices emits exactly one row for each floor with at
\* least one transaction having a size, a positive amount and a price per sqm
\* that does not round to 0, no row for any other floor, and the rows are in
\* strictly ascending floor order
C18_RowPerPricedFloor ==
    a_result # <<>> =>
        /\ FloorsOfRows =
               { tx.floor[1] :
                     tx \in { t \in Analysed :
                                  /\ SizedOnFloor(t)
                                  /\ Round(t.deal_amount, t.size_sqm[1]) # 0 } }
        /\ Len(AnalysisOf.floor_analysis) = Cardinality(FloorsOfRows)
        /\ FloorRowsAscending

\* two floors have a row each, and a third floor, whose one sized sale has a
\* price per sqm that rounds to 0, has none
C18_Witness ==
    /\ a_result # <<>>
    /\ Len(AnalysisOf.floor_analysis) = 2
    /\ \E tx \in Analysed :
           /\ SizedOnFloor(tx)
           /\ Round(tx.deal_amount, tx.size_sqm[1]) = 0
           /\ tx.floor[1] \notin FloorsOfRows

----------------------------------------------------------------------------
(* Claims about parse_address_parts *)

\* the lexical reference parser, by positions in the text
RefTrim(s) ==
    LET inked == { i \in 1..Len(s) : s[i] # " " }
    IN  IF inked = {} THEN <<>>
        ELSE SubSeq(s, CHOOSE i \in inked : \A j \in inked : i <= j,
                       CHOOSE i \in inked : \A j \in inked : i >= j)
RefUnmarked(s) ==
    LET t == RefTrim(s)
    IN  IF /\ Len(t) >= 6
           /\ t[1] = "R" /\ t[2] = "H" /\ t[3] = "O" /\ t[4] = "V" /\ t[5] = " "
        THEN RefTrim(SubSeq(t, 5, Len(t)))
        ELSE t
RefCommas(t) == { i \in 1..Len(t) : t[i] = "," }
\* the position of the k-th comma; 0 before the first, past the end after the last
RefCommaAt(t, k) ==
    IF k = 0 THEN 0
    ELSE IF k > Cardinality(RefCommas(t)) THEN Len(t) + 1
    ELSE CHOOSE i \in RefCommas(t) : Cardinality({ j \in RefCommas(t) : j < i }) = k - 1
RefSegment(t, k) == RefTrim(SubSeq(t, RefCommaAt(t, k - 1) + 1, RefCommaAt(t, k) - 1))
RefParse(addr) ==
    LET t == RefUnmarked(addr)
        count == Cardinality(RefCommas(t)) + 1
        first == RefSegment(t, 1)
        digits == { i \in 1..Len(first) : first[i] \in Digits }
        from == CHOOSE i \in digits : \A j \in digits : i <= j
        to == CHOOSE i \in digits : /\ from..i \subseteq digits
                                    /\ (i + 1) \notin digits
    IN  [ city |-> IF count = 1 THEN <<>> ELSE RefSegment(t, count),
          neighborhood |-> IF count = 3 THEN RefSegment(t, 2) ELSE <<>>,
          number |-> IF digits = {} THEN <<>> ELSE SubSeq(first, from, to),
          street |-> IF digits = {} THEN first
                     ELSE RefTrim(SubSeq(first, 1, from - 1)) ]

\* C19: every call of parse_address_parts returns what the lexical reference
\* parser returns: after the leading street word is stripped and the text split
\* on commas, the city is the last segment (empty without a comma), the
\* neighborhood the middle segment of exactly three, the number the first run
\* of digits of the first segment and the street what precedes it (the whole
\* first segment when it has no digit); two calls on one input agree
C19_EqualsReferenceParser ==
    \A i \in 1..Len(p_results) : p_results[i] = RefParse(p_address)

\* the parser was called twice on an address that starts with the street word
\* and has three segments, and found a two-digit number and a neighborhood
C19_Witness ==
    /\ Len(p_results) = 2
    /\ Len(p_address) > 5 /\ SubSeq(p_address, 1, 5) = StreetWord \o <<" ">>
    /\ Cardinality(RefCommas(p_address)) = 2
    /\ p_results[1].neighborhood # <<>>
    /\ Len(p_results[2].number) = 2

----------------------------------------------------------------------------
(* Claims about the sources a report names *)

Attempted(step) == stepResult[step] \in {"ok", "empty", "raise"}

\* C20: data_sources_used names the sources consulted during the run: the
\* transaction registry exactly when a registry fetch was attempted, and the
\* listing marketplace exactly when the listing search was attempted, whether
\* or not the source returned any record
C20_SourcesConsulted ==
    report # None =>
        LET used == Range(report[1].data_sources_used)
        IN  /\ "nadlan.gov.il" \in used
                <=> (Attempted("street") \/ Attempted("neighborhood") \/ Attempted("city"))
            /\ "yad2.co.il" \in used <=> Attempted("listings")

----------------------------------------------------------------------------
(* Claims about a progress callback that raises *)

\* C23: when the callback raises while reporting the result of a fetch stage
\* that itself succeeded, the records fetched by that stage are not discarded
\* and no data-source error string is recorded for that stage
C23_CallbackFailureIsolated ==
    \A step \in Steps :
        (progress_callback = FoundEvent(step) /\ stepResult[step] \in {"ok", "empty"}) =>
            /\ stepResult[step] = "ok" => ResultOf(step) # <<>>
            /\ \A i \in 1..Len(errors) : errors[i] # ErrorString(step)

----------------------------------------------------------------------------
(* Claims about the transports of resolve_address *)

ResolveRequests == SelectSeq(n_log, LAMBDA e : e.ev = "request" /\ e.call = "resolve")
Via(e) == UrlsToTry[e.target]

\* C22: resolve_address asks the registry directly first and uses the relay only
\* after the direct attempt has failed: every relay request comes after a direct
\* request, and none is issued in a call whose direct attempt succeeds
C22_DirectFirst ==
    /\ \A i \in 1..Len(ResolveRequests) :
           Via(ResolveRequests[i]) = "ScraperAPI" =>
               \E j \in 1..(i - 1) : Via(ResolveRequests[j]) = "Direct"
    /\ (n_pc = "paging" /\ UrlsToTry[n_transport] = "Direct") =>
           \A i \in 1..Len(ResolveRequests) : Via(ResolveRequests[i]) = "Direct"

----------------------------------------------------------------------------
(* Claims about the merged transactions of a report *)

Combination(tx) == <<tx.address, tx.deal_amount, tx.deal_date>>
MergeInput == m_street \o m_hood \o m_town

\* C24: the merged collection holds each (address, amount, date) combination at
\* most once, holds every combination of the three lists, and the record kept
\* for a combination is its first one in street, neighborhood, city order
C24_MergeKeepsFirst ==
    m_result # <<>> =>
        LET out == m_result[1]
        IN  /\ \A i, j \in 1..Len(out) : i < j => Combination(out[i]) # Combination(out[j])
            /\ { Combination(out[i]) : i \in 1..Len(out) }
                   = { Combination(MergeInput[k]) : k \in 1..Len(MergeInput) }
            /\ \A i \in 1..Len(out) :
                   \E k \in 1..Len(MergeInput) :
                       /\ out[i] = MergeInput[k]
                       /\ \A h \in 1..(k - 1) :
                              Combination(MergeInput[h]) # Combination(out[i])

\* the street list and the city list hold the same sale with different sizes, a
\* third sale differs from them in the date alone, and two records were kept
C24_Witness ==
    /\ m_result # <<>>
    /\ Len(m_street) = 1 /\ Len(m_hood) = 1 /\ Len(m_town) = 1
    /\ Combination(m_street[1]) = Combination(m_town[1])
    /\ m_street[1] # m_town[1]
    /\ m_hood[1].address = m_street[1].address
    /\ m_hood[1].deal_date # m_street[1].deal_date
    /\ m_result[1] = <<m_street[1], m_hood[1]>>

----------------------------------------------------------------------------
(* Claims about the rows of the building-age and floor analyses *)

\* C25: analyze_building_age places every transaction with a construction year
\* after 1900 and a positive amount in exactly one of the four brackets
C25_BracketsPartition ==
    a_result # <<>> =>
        \A i \in 1..Len(e_transactions) :
            (/\ e_transactions[i].building_year # None
             /\ e_transactions[i].building_year[1] > 1900
             /\ e_transactions[i].deal_amount > 0) => Cardinality(BracketsOf(i)) = 1

\* the analysed transactions of a floor that have a size and a positive amount
SizedAt(floor) ==
    SelectSeq(e_transactions, LAMBDA tx : SizedOnFloor(tx) /\ tx.floor[1] = floor)

\* C26: in every row of analyze_floor_prices, transaction_count and
\* avg_total_price are computed over the same transactions as avg_price_per_sqm:
\* those of the floor that have a size and a positive amount
C26_RowOverSizedSales ==
    a_result # <<>> =>
        \A r \in 1..Len(AnalysisOf.floor_analysis) :
            LET row == AnalysisOf.floor_analysis[r]
                sized == SizedAt(row.floor)
                prices == [i \in 1..Len(sized) |->
                              Round(sized[i].deal_amount, sized[i].size_sqm[1])]
            IN  /\ row.transaction_count = Len(sized)
                /\ row.avg_total_price = Round(SumSeq(Amounts(sized)), Len(sized))
                /\ row.avg_price_per_sqm = Round(SumSeq(prices), Len(sized))

----------------------------------------------------------------------------
(* Claims about the weights and the size of estimate_value *)

PoolPrices == { comp_price_per_sqm(e_result.valid[i])[1] : i \in 1..Len(e_result.valid) }
PoolMin == CHOOSE x \in PoolPrices : \A y \in PoolPrices : x <= y
PoolMax == CHOOSE x \in PoolPrices : \A y \in PoolPrices : x >= y
WeightedPrices ==
    SumSeq([i \in 1..Len(e_result.valid) |->
                comp_price_per_sqm(e_result.valid[i])[1] * e_result.weights[i]])

\* C27: every pool member's weight lies between 0.6*0.7*0.8*0.8 and
\* 1.5*1.3*1.2*1.2, so is strictly positive and the weights never sum to zero; the
\* weighted mean price per sqm lies between the least and the greatest price per
\* sqm of the pool members
C27_WeightsPositive ==
    (e_pc = "done" /\ e_result.valid # <<>>) =>
        /\ \A i \in 1..Len(e_result.weights) :
               /\ e_result.weights[i] >= 6 * 7 * 8 * 8
               /\ e_result.weights[i] <= 15 * 13 * 12 * 12
               /\ e_result.weights[i] > 0
        /\ SumSeq(e_result.weights) > 0
        /\ PoolMin * SumSeq(e_result.weights) <= WeightedPrices
        /\ WeightedPrices <= PoolMax * SumSeq(e_result.weights)
        /\ e_result.value # None
        /\ e_result.value[1].estimated_price_per_sqm >= PoolMin
        /\ e_result.value[1].estimated_price_per_sqm <= PoolMax

\* a pool of two with different prices per sqm, one of them with the least
\* weight there is, and a weighted mean strictly between the two prices
C27_Witness ==
    /\ e_pc = "done"
    /\ Len(e_result.valid) = 2
    /\ \E i \in 1..2 : e_result.weights[i] = 6 * 7 * 8 * 8
    /\ e_result.weights[1] # e_result.weights[2]
    /\ PoolMin * SumSeq(e_result.weights) < WeightedPrices
    /\ WeightedPrices < PoolMax * SumSeq(e_result.weights)

PoolSizes == [i \in 1..Len(e_result.valid) |-> e_result.valid[i].size_sqm[1]]

\* C28: whenever there is an estimate and no subject size was given, every pool
\* member has a known positive size, so the size used is the mean size of the
\* pool members and never the default of 80 sqm
C28_DefaultSizeUnused ==
    (e_pc = "done" /\ e_result.value # None /\ ~Truthy(e_subject.size)) =>
        /\ \A i \in 1..Len(e_result.valid) :
               /\ e_result.valid[i].size_sqm # None
               /\ e_result.valid[i].size_sqm[1] > 0
        /\ SizeUsed(e_result.valid, e_subject.size)
               = <<SumSeq(PoolSizes), Len(e_result.valid)>>
        /\ e_result.value[1].estimated_price_mid
               = Round(WeightedPrices * SumSeq(PoolSizes),
                       SumSeq(e_result.weights) * Len(e_result.valid))

\* an estimate without a subject size from a pool of three sizes whose mean is
\* not 80, out of comparables of which one has no size
C28_Witness ==
    /\ e_pc = "done"
    /\ e_result.value # None
    /\ e_subject.size = None
    /\ Len(e_result.valid) = 3
    /\ SumSeq(PoolSizes) # 3 * 80
    /\ \E i \in 1..Len(e_transactions) : e_transactions[i].size_sqm = None

----------------------------------------------------------------------------
(* Claims about the session store *)

\* C29: after any sequence of add and clear calls no two transactions of the
\* store have the same id, and an add call returns the number of transactions
\* it added to the store (0 when it adds the batch of the call before again)
C29_StoreHasNoDuplicateId ==
    /\ \A i, j \in 1..Len(s_store) : i < j => s_store[i].id # s_store[j].id
    /\ s_last # <<>> => s_last[1].returned = Len(s_store) - Len(s_last[1].before)

----------------------------------------------------------------------------
(* Claims about the pacing of the registry requests *)

IsRequest(e) == e.ev = "request"
IsDelay(e, secs) == e.ev = "sleep" /\ e.secs = secs

\* C30, for the requests of one registry fetch: between the requests of two
\* consecutive pages of get_transactions lies the fixed inter-page delay, and no
\* two registry requests are issued back to back without a delay between them
C30_RequestsSpacedByDelay ==
    /\ \A i, j \in 1..Len(n_log) :
           (/\ i < j
            /\ IsRequest(n_log[i]) /\ n_log[i].call = "page"
            /\ IsRequest(n_log[j]) /\ n_log[j].call = "page"
            /\ n_log[j].target = n_log[i].target + 1) =>
               \E k \in (i + 1)..(j - 1) : IsDelay(n_log[k], NadlanRequestDelay)
    /\ \A i \in 1..(Len(n_log) - 1) : ~(IsRequest(n_log[i]) /\ IsRequest(n_log[i + 1]))

----------------------------------------------------------------------------
(* orchestrator.py: two coroutines of run_market_analysis on one event loop.   *)
(* Each coroutine has its own frame of arguments and locals; the market       *)
(* modules keep no mutable module-level state, so the frames are all there is. *)
(* The event loop resumes either coroutine at each of its awaits.              *)

Runs == {1, 2}

PairAddresses ==
    { <<"a", " ", "1", ",", " ", "c">>,
      <<"a", " ", "1", ",", "n", ",", "c">> }
PairTxOutcomes == { Returned(<<t>>, 0) : t \in RunTx } \cup {Raises}
PairListingOutcomes == { Returned(<<l>>, 0) : l \in RunListings } \cup {Raises}
\* ANTHROPIC_API_KEY in the environment the two coroutines share
PairKeys == {"present"}

\* lines 20-30 and 55-63: the frame of a coroutine that has not run yet; `responses`
\* and `ai_response` record what the awaited calls of this coroutine were answered
Frame(addr, ai, key) ==
    [ pc |-> "Resolving", address |-> addr, include_ai |-> ai, api_key |-> key,
      city |-> <<>>, neighborhood |-> <<>>, errors |-> <<>>,
      transactions_street |-> <<>>, transactions_neighborhood |-> <<>>,
      transactions_city |-> <<>>, listings |-> <<>>, report |-> None,
      responses |-> <<>>, ai_response |-> "" ]

\* one errors list read by every coroutine
FrameErrors_Shared(rs, r) == rs[1].errors

\* line 63: `errors` is a local of the coroutine
FrameErrors(rs, r) == rs[r].errors

\* lines 83 and 98 on the locals of a frame
FrameAfterStreet(f) ==
    IF f.city # <<>> /\ f.neighborhood # <<>> THEN "FetchingNeighborhood"
    ELSE IF f.city # <<>> THEN "FetchingCity"
    ELSE "FetchingListings"
FrameAfterNeighborhood(f) == IF f.city # <<>> THEN "FetchingCity" ELSE "FetchingListings"

\* the errors list of coroutine r after a step answered by `out`
FrameErrorsAfter(rs, r, out, step) ==
    IF out.kind = "raise" THEN OnStepError(FrameErrors(rs, r), step)
    ELSE FrameErrors(rs, r)

Answered(f, step, out) == Append(f.responses, [step |-> step, out |-> out])

PairInit ==
    /\ \E key \in PairKeys :
           r_run \in [Runs -> { Frame(addr, ai, key) :
                                    addr \in PairAddresses, ai \in BOOLEAN }]
    /\ RunIdle /\ EstIdle /\ ParseIdle /\ AnalysisIdle /\ NadlanIdle /\ Yad2Idle
    /\ MergeIdle /\ StoreIdle

PairUnchanged ==
    UNCHANGED <<runVars, estVars, parseVars, analysisVars, nadlanVars, yad2Vars,
                mergeVars, storeVars>>

\* lines 55-63
PairResolve(r) ==
    LET f == r_run[r]
    IN  /\ f.pc = "Resolving"
        /\ r_run' = [r_run EXCEPT ![r] =
               [f EXCEPT !.city = parse_address_parts(f.address).city,
                         !.neighborhood = parse_address_parts(f.address).neighborhood,
                         !.errors = <<>>,
                         !.pc = "FetchingStreet"]]
        /\ PairUnchanged

\* lines 66-79
PairFetchStreet(r) ==
    LET f == r_run[r]
    IN  /\ f.pc = "FetchingStreet"
        /\ \E out \in PairTxOutcomes :
               r_run' = [r_run EXCEPT ![r] =
                   [f EXCEPT !.transactions_street = out.value,
                             !.errors = FrameErrorsAfter(r_run, r, out, "street"),
                             !.responses = Answered(f, "street", out),
                             !.pc = FrameAfterStreet(f)]]
        /\ PairUnchanged

\* lines 82-94
PairFetchNeighborhood(r) ==
    LET f == r_run[r]
    IN  /\ f.pc = "FetchingNeighborhood"
        /\ \E out \in PairTxOutcomes :
               r_run' = [r_run EXCEPT ![r] =
                   [f EXCEPT !.transactions_neighborhood = out.value,
                             !.errors = FrameErrorsAfter(r_run, r, out, "neighborhood"),
                             !.responses = Answered(f, "neighborhood", out),
                             !.pc = FrameAfterNeighborhood(f)]]
        /\ PairUnchanged

\* lines 97-105
PairFetchCity(r) ==
    LET f == r_run[r]
    IN  /\ f.pc = "FetchingCity"
        /\ \E out \in PairTxOutcomes :
               r_run' = [r_run EXCEPT ![r] =
                   [f EXCEPT !.transactions_city = out.value,
                             !.errors = FrameErrorsAfter(r_run, r, out, "city"),
                             !.responses = Answered(f, "city", out),
                             !.pc = "FetchingListings"]]
        /\ PairUnchanged

\* lines 108-122
PairFetchListings(r) ==
    LET f == r_run[r]
    IN  /\ f.pc = "FetchingListings"
        /\ IF f.city # <<>>
           THEN \E out \in PairListingOutcomes :
                    r_run' = [r_run EXCEPT ![r] =
                        [f EXCEPT !.listings = out.value,
                                  !.errors = FrameErrorsAfter(r_run, r, out, "listings"),
                                  !.responses = Answered(f, "listings", out),
                                  !.pc = "Analyzing"]]
           ELSE r_run' = [r_run EXCEPT ![r] = [f EXCEPT !.listings = <<>>,
                                                        !.pc = "Analyzing"]]
        /\ PairUnchanged

\* lines 125-141, and lines 149-157 when no AI summary is asked for
PairAnalyze(r) ==
    LET f == r_run[r]
    IN  /\ f.pc = "Analyzing"
        /\ r_run' = [r_run EXCEPT ![r] =
               [f EXCEPT !.report =
                             Some([generate_report(f.address, f.transactions_street,
                                                   f.transactions_neighborhood,
                                                   f.transactions_city, f.listings,
                                                   RunSubject)
                                   EXCEPT !.errors = FrameErrors(r_run, r)]),
                         !.pc = IF f.include_ai THEN "Summarizing" ELSE "Done"]]
        /\ PairUnchanged

\* lines 144-157: an exception of generate_ai_summary leaves the coroutine
PairSummarize(r) ==
    LET f == r_run[r]
    IN  /\ f.pc = "Summarizing"
        /\ \E call \in AiCalls :
               LET res == generate_ai_summary(f.report[1], f.api_key, call)
               IN  r_run' = [r_run EXCEPT ![r] =
                       IF res.raised # ""
                       THEN [f EXCEPT !.pc = "Raised"]
                       ELSE [f EXCEPT !.report = Some([f.report[1] EXCEPT
                                                           !.ai_summary = res.value]),
                                      !.ai_response =
                                          IF f.api_key = "absent" THEN "" ELSE call,
                                      !.pc = "Done"]]
        /\ PairUnchanged

\* the event loop resumes one of the coroutines
PairNext ==
    \E r \in Runs :
        \/ PairResolve(r)
        \/ PairFetchStreet(r)
        \/ PairFetchNeighborhood(r)
        \/ PairFetchCity(r)
        \/ PairFetchListings(r)
        \/ PairAnalyze(r)
        \/ PairSummarize(r)

SpecPair == PairInit /\ [][PairNext]_vars

----------------------------------------------------------------------------
(* Claims about concurrent runs *)

Got(f, step) == \E i \in 1..Len(f.responses) : f.responses[i].step = step
Out(f, step) == f.responses[CHOOSE i \in 1..Len(f.responses) : f.responses[i].step = step].out
RaisedTo(f, step) == Got(f, step) /\ Out(f, step).kind = "raise"
ValueOf(f, step) ==
    IF Got(f, step) /\ Out(f, step).kind = "return" THEN Out(f, step).value ELSE <<>>

\* the error strings of the steps that raised, in the order of the steps
RECURSIVE ErrorsOf(_, _)
ErrorsOf(f, steps) ==
    IF steps = <<>> THEN <<>>
    ELSE (IF RaisedTo(f, Head(steps)) THEN <<ErrorString(Head(steps))>> ELSE <<>>)
             \o ErrorsOf(f, Tail(steps))

\* the report of a run alone, from its arguments and the answers it was given
SequentialReport(f) ==
    LET analysed == [generate_report(f.address, ValueOf(f, "street"),
                                     ValueOf(f, "neighborhood"), ValueOf(f, "city"),
                                     ValueOf(f, "listings"), RunSubject)
                     EXCEPT !.errors = ErrorsOf(f, StepOrder)]
    IN  IF f.include_ai
        THEN [analysed EXCEPT !.ai_summary =
                  generate_ai_summary(analysed, f.api_key, f.ai_response).value]
        ELSE analysed

InSeq(x, sq) == \E i \in 1..Len(sq) : sq[i] = x

\* C21: of two runs on one event loop, the report of each finished run is the
\* report of that run alone, computed from its own arguments and the answers to
\* its own requests; every error string in it is of a step of this run that
\* raised, and every record in it was answered to this run
C21_RunsIsolated ==
    \A r \in Runs :
        LET f == r_run[r]
        IN  f.pc = "Done" =>
                /\ f.report = Some(SequentialReport(f))
                /\ \A i \in 1..Len(f.report[1].errors) :
                       \E step \in Steps : /\ RaisedTo(f, step)
                                           /\ f.report[1].errors[i] = ErrorString(step)
                /\ \A i \in 1..Len(f.report[1].transactions) :
                       \E step \in Steps \ {"listings"} :
                           InSeq(f.report[1].transactions[i], ValueOf(f, step))
                /\ \A i \in 1..Len(f.report[1].current_listings) :
                       InSeq(f.report[1].current_listings[i], ValueOf(f, "listings"))

\* both runs finished; the street fetch of the first raised and the second was
\* answered a record the first never saw
C21_Witness ==
    /\ r_run # <<>>
    /\ r_run[1].pc = "Done" /\ r_run[2].pc = "Done"
    /\ RaisedTo(r_run[1], "street")
    /\ r_run[2].report[1].errors = <<>>
    /\ r_run[2].report[1].transactions # <<>>
    /\ \A i \in 1..Len(r_run[2].report[1].transactions) :
           ~InSeq(r_run[2].report[1].transactions[i], r_run[1].report[1].transactions)

============================================================================
